---------------------------- MODULE Spec2Model ----------------------------
(***************************************************************************)
(* SimExchange: the matching engine (OrderBookService) and the simulation  *)
(* orchestrator (TradingSimulator with SimulationService and AgentService) *)
(* of src/simexchange/core.                                                *)
(*                                                                         *)
(* Prices and balances are Python floats in the source.  The model keeps   *)
(* them as integers: every price is drawn from Prices and every amount is  *)
(* a sum of products price * quantity, so no rounding takes place.         *)
(* Wall-clock values (Order.timestamp, Trade.timestamp,                    *)
(* Agent.last_trade_time) are not kept: the only code that reads one is    *)
(* Agent.should_trade, whose outcome is an input of the cycle.  Arrival    *)
(* order is the order of the ids the orchestrator hands out.               *)
(***************************************************************************)
EXTENDS Integers, Sequences, FiniteSets, TLC

(***************************************************************************)
(* Bounds of the model.                                                    *)
(***************************************************************************)
\* Orders created since construction or the last reset.
MaxOrders == 3
\* Cycles run since construction or the last reset.
MaxCycle == 2
\* The cycles of a run in the specification of the long runs.
MaxLongCycle == 5
\* The orders of a run in the specification of the agents' own orders.
MaxOwnOrders == 4
\* The cycles of a run of the legacy simulator.
MaxLegacyCycle == 2
\* The cycles of a run in the specification of the bot's cadence.
MaxCadenceCycle == 4

(***************************************************************************)
(* The configuration the model runs under: SimulationConfig(               *)
(* initial_price=100, num_agents=2, initial_balance=2000,                  *)
(* max_history_size=4, max_trades_history=5, balance_increase_cycles=2,    *)
(* balance_increase_amount=1000, avg_spread_cycles=2).                     *)
(***************************************************************************)
initial_price == 100
num_agents == 2
initial_balance == 2000
max_history_size == 4
max_trades_history == 5
initial_balance_increase_cycles == 2
initial_balance_increase_amount == 1000
initial_avg_spread_cycles == 2

\* The legacy simulator the model runs: TradingSimulator(initial_price=100.0,
\* num_agents=6, initial_balance=2000.0), amounts in thousandths.
legacy_initial_price == 100000
legacy_num_agents == 6
legacy_initial_balance == 2000000
\* The legacy TradingSimulator.__init__: the cycles between two balance
\* increases and the amount of one, in thousandths.
legacy_balance_increase_cycles == 100
legacy_balance_increase_amount == 1000000

\* Agent ids: AgentService.create_agents numbers the agents 0 .. num_agents-1.
AgentIds == 0 .. (num_agents - 1)

\* Inputs of the random draws: limit prices around the initial price (the
\* values of the documented example) and order quantities.
Prices == {99, 100, 101}
Quantities == {5, 10, 15}
\* The quantities of the agents' draws in a cycle.
DrawQuantities == {5, 10}
\* Agent.risk_tolerance in percent, the ends of agent_risk_tolerance_range.
RiskPercents == {30, 80}

\* OrderType
BUY == "BUY"
SELL == "SELL"
OrderTypes == {BUY, SELL}

\* Optional[float]: None is the empty tuple, a value v is <<v>>.
None == << >>
Some(v) == << v >>

Min(a, b) == IF a <= b THEN a ELSE b
Max(a, b) == IF a >= b THEN a ELSE b

\* Python's s[-k:] for k >= 0: the last k elements; s[-0:] is the whole list.
LastSlice(s, k) ==
    IF k = 0 \/ k >= Len(s) THEN s ELSE SubSeq(s, Len(s) - k + 1, Len(s))

\* Python's s[:k] for k >= 0.
FirstSlice(s, k) == SubSeq(s, 1, Min(k, Len(s)))

\* list.pop(i) for a 1-based position i.
PopAt(s, i) == SubSeq(s, 1, i - 1) \o SubSeq(s, i + 1, Len(s))

\* list.insert(i, x) for a 1-based position i.
InsertAt(s, i, x) == SubSeq(s, 1, i - 1) \o << x >> \o SubSeq(s, i, Len(s))

RECURSIVE SumSeq(_)
SumSeq(s) == IF s = << >> THEN 0 ELSE Head(s) + SumSeq(Tail(s))

VARIABLES
    \* OrderBookService
    buy_orders, sell_orders, trades, current_price, next_order_id, next_trade_id,
    \* SimulationService
    cycle, price_history, volume_history, trade_count_history, spread_history,
    last_balance_increase_cycle,
    \* AgentService: agent id -> Agent
    agents,
    \* SimulationConfig fields the orchestrator's setters write
    config,
    \* the legacy program (src/order_book.py, src/trading_bot.py,
    \* src/simulator.py): the OrderBook's fields, the TradingBot's fields and
    \* the other fields of the legacy TradingSimulator
    order_book, trading_bot, simulator,
    \* the last call made on the program and what it returned
    op, ret

bookVars == << buy_orders, sell_orders, trades, current_price, next_order_id, next_trade_id >>
simVars == << cycle, price_history, volume_history, trade_count_history, spread_history,
              last_balance_increase_cycle >>
legacyVars == << order_book, trading_bot, simulator >>
progVars == << bookVars, simVars, agents, config, legacyVars >>
vars == << progVars, op, ret >>

\* What a call returns: a value, or the exception it raised.
Returned(v) == [raised |-> FALSE, value |-> v]
Raised == [raised |-> TRUE, value |-> << >>]

(***************************************************************************)
(* Order and Trade                                                         *)
(***************************************************************************)
\* Mutant: the quantity check is missing.
OrderInvalid_price_only(price, quantity, agent_id) ==
    price <= 0 \/ agent_id < 0

\* Order.__post_init__: the conditions under which construction raises.
OrderInvalid(price, quantity, agent_id) ==
    price <= 0 \/ quantity <= 0 \/ agent_id < 0

Order(id, price, quantity, order_type, agent_id) ==
    [id |-> id, price |-> price, quantity |-> quantity,
     order_type |-> order_type, agent_id |-> agent_id]

\* Trade.create_from_orders: the conditions under which it raises.
TradeInvalid(buy_order, sell_order, quantity) ==
    \/ buy_order.order_type # BUY
    \/ sell_order.order_type # SELL
    \/ quantity <= 0
    \/ quantity > Min(buy_order.quantity, sell_order.quantity)
    \/ sell_order.price <= 0
    \/ buy_order.agent_id < 0
    \/ sell_order.agent_id < 0

\* Trade.create_from_orders: the trade carries the sell order's price.
create_from_orders(trade_id, buy_order, sell_order, quantity) ==
    [id |-> trade_id, price |-> sell_order.price, quantity |-> quantity,
     buyer_id |-> buy_order.agent_id, seller_id |-> sell_order.agent_id]

(***************************************************************************)
(* OrderBookService                                                        *)
(***************************************************************************)
\* The book state the matching works on.
Book == [buy_orders |-> buy_orders, sell_orders |-> sell_orders, trades |-> trades,
         current_price |-> current_price, next_trade_id |-> next_trade_id]

\* Mutant: the cut keeps the first max_trades_history trades.
append_trade_keeps_oldest(history, trade) ==
    LET appended == Append(history, trade)
    IN  IF Len(appended) > config.max_trades_history
        THEN FirstSlice(appended, config.max_trades_history)
        ELSE appended

\* self.trades.append(trade) and the cut to the last max_trades_history,
\* which OrderBookService got from the configuration.
append_trade(history, trade) ==
    LET appended == Append(history, trade)
    IN  IF Len(appended) > config.max_trades_history
        THEN LastSlice(appended, config.max_trades_history)
        ELSE appended

\* Mutant: the executed orders are left in the book.
pop_all_none(book, orders_to_remove) == book

\* for i in reversed(orders_to_remove): book.pop(i)
RECURSIVE pop_all(_, _)
pop_all(book, orders_to_remove) ==
    IF orders_to_remove = << >> THEN book
    ELSE pop_all(PopAt(book, orders_to_remove[Len(orders_to_remove)]),
                 SubSeq(orders_to_remove, 1, Len(orders_to_remove) - 1))

\* Mutant: the comparisons are the wrong way round.
crosses_inverted(order, resting) ==
    IF order.order_type = BUY
    THEN resting.price >= order.price
    ELSE resting.price <= order.price

\* Whether the resting order can trade with the incoming one.
crosses(order, resting) ==
    IF order.order_type = BUY
    THEN resting.price <= order.price
    ELSE resting.price >= order.price

\* The trade of the incoming order with a resting order.
make_trade(trade_id, order, resting, quantity) ==
    IF order.order_type = BUY
    THEN create_from_orders(trade_id, order, resting, quantity)
    ELSE create_from_orders(trade_id, resting, order, quantity)

make_trade_invalid(order, resting, quantity) ==
    IF order.order_type = BUY
    THEN TradeInvalid(order, resting, quantity)
    ELSE TradeInvalid(resting, order, quantity)

\* The for loop of _process_buy_order / _process_sell_order over the opposing
\* book, from position i on.  st: opposing (the opposing book, quantities
\* decremented in place), remaining, new_trades, history, next_trade_id,
\* orders_to_remove, raised, and scanned, the number of times the loop body
\* has been entered.
RECURSIVE match_loop(_, _, _)

\* Mutant: the next trade gets the same id again.
record_trade_same_id(st, i, trade) ==
    [st EXCEPT
       !.new_trades = Append(@, trade),
       !.history = append_trade(@, trade),
       !.remaining = @ - trade.quantity,
       !.opposing[i].quantity = @ - trade.quantity,
       !.orders_to_remove =
           IF st.opposing[i].quantity - trade.quantity = 0 THEN Append(@, i) ELSE @]

\* Mutant: an executed resting order is not marked for removal.
record_trade_keeping_executed(st, i, trade) ==
    [st EXCEPT
       !.new_trades = Append(@, trade),
       !.history = append_trade(@, trade),
       !.next_trade_id = @ + 1,
       !.remaining = @ - trade.quantity,
       !.opposing[i].quantity = @ - trade.quantity]

\* The loop body after the trade is made: the trade is recorded, the
\* quantities fall, an executed resting order is marked for removal.
record_trade(st, i, trade) ==
    [st EXCEPT
       !.new_trades = Append(@, trade),
       !.history = append_trade(@, trade),
       !.next_trade_id = @ + 1,
       !.remaining = @ - trade.quantity,
       !.opposing[i].quantity = @ - trade.quantity,
       !.orders_to_remove =
           IF st.opposing[i].quantity - trade.quantity = 0 THEN Append(@, i) ELSE @]

\* Mutant: after a trade the loop starts over at the head of the book.
continue_match_rescanning(order, st, i) ==
    IF st.remaining = 0 THEN st ELSE match_loop(order, st, 1)

\* if remaining_quantity == 0: break
continue_match(order, st, i) ==
    IF st.remaining = 0 THEN st ELSE match_loop(order, st, i + 1)

\* The loop body for a resting order the incoming one trades with.
match_one(order, st, i, trade_quantity) ==
    IF make_trade_invalid(order, st.opposing[i], trade_quantity)
    THEN [st EXCEPT !.raised = TRUE]
    ELSE continue_match(
             order,
             record_trade(st, i, make_trade(st.next_trade_id, order, st.opposing[i],
                                            trade_quantity)),
             i)

match_loop(order, st, i) ==
    IF i > Len(st.opposing) THEN st
    ELSE IF crosses(order, st.opposing[i]) /\ st.remaining > 0
    THEN match_one(order, [st EXCEPT !.scanned = @ + 1], i,
                   Min(st.remaining, st.opposing[i].quantity))
    ELSE match_loop(order, [st EXCEPT !.scanned = @ + 1], i + 1)

\* Mutant: a new buy order goes before the resting orders of its price.
RECURSIVE insert_buy_order_ties_first(_, _, _)
insert_buy_order_ties_first(book, order, i) ==
    IF i > Len(book) THEN Append(book, order)
    ELSE IF order.price >= book[i].price THEN InsertAt(book, i, order)
    ELSE insert_buy_order_ties_first(book, order, i + 1)

\* _insert_buy_order: before the first resting order with a lower price.
RECURSIVE insert_buy_order(_, _, _)
insert_buy_order(book, order, i) ==
    IF i > Len(book) THEN Append(book, order)
    ELSE IF order.price > book[i].price THEN InsertAt(book, i, order)
    ELSE insert_buy_order(book, order, i + 1)

\* _insert_sell_order: before the first resting order with a higher price.
RECURSIVE insert_sell_order(_, _, _)
insert_sell_order(book, order, i) ==
    IF i > Len(book) THEN Append(book, order)
    ELSE IF order.price < book[i].price THEN InsertAt(book, i, order)
    ELSE insert_sell_order(book, order, i + 1)

\* Mutant: the order rests with the quantity it came with.
rest_order_full(order, remaining) == order

\* order.quantity = remaining_quantity: the order as it rests.
rest_order(order, remaining) == [order EXCEPT !.quantity = remaining]

\* The state the matching loop starts in.
match_start(b, order) ==
    [opposing |-> IF order.order_type = BUY THEN b.sell_orders ELSE b.buy_orders,
     remaining |-> order.quantity,
     new_trades |-> << >>,
     history |-> b.trades,
     next_trade_id |-> b.next_trade_id,
     orders_to_remove |-> << >>,
     raised |-> FALSE,
     scanned |-> 0]

\* After the loop, with st the state it ended in: the executed orders are
\* popped and what is left of the order is inserted on its own side.  An
\* exception leaves the loop before either happens.
after_match(b, order, st) ==
    LET is_buy == order.order_type = BUY
        opposing == IF st.raised THEN st.opposing
                    ELSE pop_all(st.opposing, st.orders_to_remove)
        own == IF is_buy THEN b.buy_orders ELSE b.sell_orders
        own2 == IF st.raised \/ st.remaining <= 0 THEN own
                ELSE IF is_buy
                THEN insert_buy_order(own, rest_order(order, st.remaining), 1)
                ELSE insert_sell_order(own, rest_order(order, st.remaining), 1)
    IN  [buy_orders |-> IF is_buy THEN own2 ELSE opposing,
         sell_orders |-> IF is_buy THEN opposing ELSE own2,
         trades |-> st.history,
         current_price |-> b.current_price,
         next_trade_id |-> st.next_trade_id,
         new_trades |-> st.new_trades,
         raised |-> st.raised,
         scanned |-> st.scanned]

\* _process_buy_order / _process_sell_order on book state b: the book state
\* after the call, with new_trades and raised.
process_order(b, order) ==
    after_match(b, order, match_loop(order, match_start(b, order), 1))

\* Mutant: the current price is the price of the first trade of the order.
last_trade_price_first(r) ==
    IF ~r.raised /\ r.new_trades # << >>
    THEN [r EXCEPT !.current_price = r.new_trades[1].price]
    ELSE r

\* Mutant: the last trade's price is read without asking for a trade.
last_trade_price_unguarded(r) ==
    IF r.raised THEN r
    ELSE IF r.new_trades = << >> THEN [r EXCEPT !.raised = TRUE]
    ELSE [r EXCEPT !.current_price = r.new_trades[Len(r.new_trades)].price]

\* if new_trades: self.current_price = new_trades[-1].price
last_trade_price(r) ==
    IF ~r.raised /\ r.new_trades # << >>
    THEN [r EXCEPT !.current_price = r.new_trades[Len(r.new_trades)].price]
    ELSE r

\* OrderBookService.add_order on book state b.
add_order(b, order) == last_trade_price(process_order(b, order))

\* get_best_bid, get_best_ask, get_spread
get_best_bid == IF buy_orders # << >> THEN Some(buy_orders[1].price) ELSE None

\* Mutant: the last sell order is taken for the best.
get_best_ask_last ==
    IF sell_orders # << >> THEN Some(sell_orders[Len(sell_orders)].price) ELSE None

get_best_ask == IF sell_orders # << >> THEN Some(sell_orders[1].price) ELSE None

\* Python truth of an Optional[float]: None and 0.0 are false.
Truthy(x) == x # None /\ x[1] # 0

get_spread ==
    IF Truthy(get_best_bid) /\ Truthy(get_best_ask)
    THEN Some(get_best_ask[1] - get_best_bid[1])
    ELSE None

\* get_total_volume: the quantities of the trades in the history.
RECURSIVE trade_quantities(_)
trade_quantities(ts) ==
    IF ts = << >> THEN 0 ELSE Head(ts).quantity + trade_quantities(Tail(ts))

get_total_volume == trade_quantities(trades)

\* One entry of buy_levels / sell_levels.
level_of(order) ==
    [price |-> order.price, quantity |-> order.quantity, agent_id |-> order.agent_id]

\* for order in book[:levels]: the entries, in book order.
RECURSIVE levels_of(_)
levels_of(shown) ==
    IF shown = << >> THEN << >>
    ELSE << level_of(Head(shown)) >> \o levels_of(Tail(shown))

\* get_order_book_data(levels)
get_order_book_data(levels) ==
    [buy_levels |-> levels_of(FirstSlice(buy_orders, levels)),
     sell_levels |-> levels_of(FirstSlice(sell_orders, levels)),
     current_price |-> current_price,
     best_bid |-> get_best_bid,
     best_ask |-> get_best_ask,
     spread |-> get_spread,
     total_trades |-> Len(trades),
     total_buy_orders |-> Len(buy_orders),
     total_sell_orders |-> Len(sell_orders)]

(***************************************************************************)
(* Agent and AgentService                                                  *)
(***************************************************************************)
\* AgentService._create_agent: the initial balance, no position, a risk
\* tolerance drawn from the configured range, zeroed statistics.
create_agent(risk) ==
    [balance |-> initial_balance, position |-> 0, risk_tolerance |-> risk,
     buy_orders_count |-> 0, sell_orders_count |-> 0, total_orders_count |-> 0,
     total_volume_traded |-> 0, total_value_traded |-> 0]

\* AgentService.create_agents(n): the agent lists it can give, agent i at
\* id i, each with freshly drawn characteristics.
create_agents(n) ==
    [0 .. (n - 1) -> {create_agent(r) : r \in RiskPercents}]

\* Mutant: the cash has to exceed the cost.
can_buy_strict(agent, price, quantity) == agent.balance > price * quantity

\* Mutant: a short position of any size may be opened.
can_short_sell_unbounded(agent, quantity) == TRUE

\* Agent.can_buy, Agent.can_sell, Agent.can_short_sell
can_buy(agent, price, quantity) == agent.balance >= price * quantity
can_sell(agent, quantity) == agent.position >= quantity
max_short == 1000
can_short_sell(agent, quantity) == agent.position - quantity >= -max_short

\* Agent.update_after_trade
update_after_trade(agent, trade_price, trade_quantity, is_buyer) ==
    IF is_buyer
    THEN [agent EXCEPT !.balance = @ - trade_price * trade_quantity,
                       !.position = @ + trade_quantity,
                       !.total_volume_traded = @ + trade_quantity,
                       !.total_value_traded = @ + trade_price * trade_quantity]
    ELSE [agent EXCEPT !.balance = @ + trade_price * trade_quantity,
                       !.position = @ - trade_quantity,
                       !.total_volume_traded = @ + trade_quantity,
                       !.total_value_traded = @ + trade_price * trade_quantity]

\* Mutant: only the total is counted.
add_order_statistics_total_only(agent, order_type) ==
    [agent EXCEPT !.total_orders_count = @ + 1]

\* Agent.add_order_statistics
add_order_statistics(agent, order_type) ==
    IF order_type = BUY
    THEN [agent EXCEPT !.total_orders_count = @ + 1, !.buy_orders_count = @ + 1]
    ELSE [agent EXCEPT !.total_orders_count = @ + 1, !.sell_orders_count = @ + 1]

\* AgentService.increase_all_balances
\* Mutant: the first agent is left out.
increase_all_balances_but_first(ags, amount) ==
    [a \in DOMAIN ags |-> IF a = 0 THEN ags[a] ELSE [ags[a] EXCEPT !.balance = @ + amount]]

increase_all_balances(ags, amount) ==
    [a \in DOMAIN ags |-> [ags[a] EXCEPT !.balance = @ + amount]]

\* A quotient of two numbers that the source computes in floating point.
Ratio(n, d) == [num |-> n, den |-> d]

\* Agent.get_portfolio_value, Agent.get_profit, Agent.get_profit_percentage
get_portfolio_value(agent, price) == agent.balance + agent.position * price
get_profit(agent, price) == get_portfolio_value(agent, price) - initial_balance
get_profit_percentage(agent, price) ==
    IF initial_balance > 0
    THEN Ratio(get_profit(agent, price) * 100, initial_balance)
    ELSE Ratio(0, 1)

\* One entry of get_agent_statistics.
agent_stat(a, price) ==
    [id |-> a,
     balance |-> agents[a].balance,
     position |-> agents[a].position,
     portfolio_value |-> get_portfolio_value(agents[a], price),
     profit |-> get_profit(agents[a], price),
     profit_percent |-> get_profit_percentage(agents[a], price),
     risk_tolerance |-> agents[a].risk_tolerance,
     buy_orders |-> agents[a].buy_orders_count,
     sell_orders |-> agents[a].sell_orders_count,
     total_orders |-> agents[a].total_orders_count,
     total_volume |-> agents[a].total_volume_traded,
     total_value |-> agents[a].total_value_traded]

\* list.sort(key=profit, reverse=True) is stable: an entry goes behind the
\* entries with at least its profit.
RECURSIVE insert_by_profit(_, _, _)
insert_by_profit(stats, x, i) ==
    IF i > Len(stats) THEN Append(stats, x)
    ELSE IF stats[i].profit < x.profit THEN InsertAt(stats, i, x)
    ELSE insert_by_profit(stats, x, i + 1)

\* AgentService.get_agent_statistics: the entries of the agents from id a
\* on, added to stats in the sorted order.
RECURSIVE get_agent_statistics(_, _, _)
get_agent_statistics(stats, price, a) ==
    IF a >= num_agents THEN stats
    ELSE get_agent_statistics(insert_by_profit(stats, agent_stat(a, price), 1),
                              price, a + 1)

(***************************************************************************)
(* SimulationService                                                       *)
(***************************************************************************)
\* get_current_price on a price history
get_current_price(history) ==
    IF history # << >> THEN history[Len(history)] ELSE initial_price

\* update_price, update_volume, update_trade_count, update_spread: append,
\* and past max_history_size keep the last max_history_size // 2.
update_history(history, value) ==
    LET appended == Append(history, value)
    IN  IF Len(appended) > config.max_history_size
        THEN LastSlice(appended, config.max_history_size \div 2)
        ELSE appended

\* get_price_history(limit), get_volume_history(limit),
\* get_trade_count_history(limit) with a limit given.
get_history(history, limit) ==
    IF limit > 0 THEN LastSlice(history, limit) ELSE << >>

\* get_average_spread: the mean of the last avg_spread_cycles spreads.
get_average_spread ==
    IF spread_history = << >> THEN None
    ELSE LET cycles_to_use == Min(config.avg_spread_cycles, Len(spread_history))
             recent_spreads == LastSlice(spread_history, cycles_to_use)
         IN  Some(Ratio(SumSeq(recent_spreads), Len(recent_spreads)))

\* sum(abs(c) for c in price_changes) over recent_prices from position i on,
\* as a quotient.
RECURSIVE sum_abs_changes(_, _)
sum_abs_changes(recent_prices, i) ==
    IF i > Len(recent_prices) THEN Ratio(0, 1)
    ELSE LET rest == sum_abs_changes(recent_prices, i + 1)
             diff == recent_prices[i] - recent_prices[i - 1]
             change == IF diff >= 0 THEN diff ELSE -diff
         IN  Ratio(change * rest.den + rest.num * recent_prices[i - 1],
                   recent_prices[i - 1] * rest.den)

\* Mutant: the volatility is not raised to the lower limit.
calculate_volatility_without_floor ==
    IF Len(price_history) < 2 \/ config.skip_volatility_calculation
    THEN Ratio(1, 100)
    ELSE LET recent_prices == LastSlice(price_history, 5)
             total == sum_abs_changes(recent_prices, 2)
             n == Len(recent_prices) - 1
         IN  IF 40 * total.num >= n * total.den THEN Ratio(1, 20)
             ELSE Ratio(2 * total.num, n * total.den)

\* calculate_volatility: twice the mean absolute relative change of the last
\* five prices, within [0.005, 0.05]; 0.01 without two prices or when the
\* calculation is switched off.
calculate_volatility ==
    IF Len(price_history) < 2 \/ config.skip_volatility_calculation
    THEN Ratio(1, 100)
    ELSE LET recent_prices == LastSlice(price_history, 5)
             total == sum_abs_changes(recent_prices, 2)
             n == Len(recent_prices) - 1
         IN  IF 40 * total.num >= n * total.den THEN Ratio(1, 20)
             ELSE IF total.num <= (n * total.den) \div 400 THEN Ratio(1, 200)
             ELSE Ratio(2 * total.num, n * total.den)

\* MarketData.__post_init__: the values it raises ValueError for.
market_data_valid(md) ==
    /\ md.current_price > 0
    /\ md.volatility.num >= 0
    /\ md.spread # None => md.spread[1] >= 0
    /\ md.best_bid # None => md.best_bid[1] > 0
    /\ md.best_ask # None => md.best_ask[1] > 0

\* SimulationService.create_market_data: the snapshot of the market the
\* agents of a cycle are asked with.
create_market_data(price, spread, best_bid, best_ask) ==
    [current_price |-> price,
     price_history |-> get_history(price_history, 20),
     volume_history |-> get_history(volume_history, 20),
     volatility |-> calculate_volatility,
     spread |-> spread,
     best_bid |-> best_bid,
     best_ask |-> best_ask]

\* get_balance_increase_info
get_balance_increase_info ==
    [cycles |-> config.balance_increase_cycles,
     amount |-> config.balance_increase_amount,
     next_increase |-> config.balance_increase_cycles
                           - (cycle - last_balance_increase_cycle),
     last_increase_cycle |-> last_balance_increase_cycle]

\* get_simulation_statistics
get_simulation_statistics ==
    [cycle |-> cycle,
     current_price |-> get_current_price(price_history),
     price_history_length |-> Len(price_history),
     volume_history_length |-> Len(volume_history),
     trade_count_history_length |-> Len(trade_count_history),
     spread_history_length |-> Len(spread_history),
     average_spread |-> get_average_spread,
     volatility |-> calculate_volatility,
     balance_increase_info |-> get_balance_increase_info,
     performance_mode |-> config.performance_mode,
     skip_volatility_calculation |-> config.skip_volatility_calculation]

\* Mutant: the counter is left as it is.
increment_cycle_none(c) == c

\* increment_cycle
increment_cycle(c) == c + 1

\* should_increase_balance
\* Mutant: the interval has to be exceeded.
should_increase_balance_strict(cyc, last, cfg) ==
    cyc - last > cfg.balance_increase_cycles

\* Mutant: the interval has to be met exactly.
should_increase_balance_exact(cyc, last, cfg) ==
    cyc - last = cfg.balance_increase_cycles

should_increase_balance(cyc, last, cfg) ==
    cyc - last >= cfg.balance_increase_cycles

(***************************************************************************)
(* TradingSimulator                                                        *)
(***************************************************************************)
\* What an agent's random draws come to in one cycle: no order (the cooldown
\* of should_trade, or random() > trading_frequency), or a side, a price and
\* a quantity.
NoOrder == [kind |-> "none"]
Draw(order_type, price, quantity) ==
    [kind |-> "order", order_type |-> order_type, price |-> price, quantity |-> quantity]
Draws == {NoOrder} \cup
         {Draw(t, p, q) : t \in OrderTypes, p \in Prices, q \in DrawQuantities}

\* price = market_data.current_price * uniform(0.95, 1.05) * price_sensitivity,
\* price_sensitivity within (0.5, 1.0): the prices the draw can give.
price_drawable(market_price, price) ==
    /\ 1000 * price >= 475 * market_price
    /\ 100 * price <= 105 * market_price

\* _generate_agent_order, the quantity part: the largest quantity
\* random.randint(1, max(1, max_quantity)) can give, 0 when no order is made.
max_quantity(agent, order_type, price) ==
    IF order_type = BUY
    THEN LET m == (agent.balance * agent.risk_tolerance) \div (100 * price)
         IN  IF m <= 0 THEN 0 ELSE Max(1, m)
    ELSE IF agent.position <= 0 THEN 10 ELSE agent.position

\* _generate_agent_order: whether the draw d is one the agent can make, and
\* whether it passes can_buy / can_short_sell and becomes an order.
draw_possible(agent, market_price, d) ==
    \/ d.kind = "none"
    \/ /\ d.kind = "order"
       /\ price_drawable(market_price, d.price)
       /\ d.quantity >= 1
       /\ d.quantity <= max_quantity(agent, d.order_type, d.price)

draw_admitted(agent, d) ==
    /\ d.kind = "order"
    /\ IF d.order_type = BUY
       THEN can_buy(agent, d.price, d.quantity)
       ELSE can_short_sell(agent, d.quantity)

\* The update of the submitting agent after its order's trades
\* (run_cycle, for trade in trades).
RECURSIVE apply_trades(_, _, _)
apply_trades(agent, agent_id, ts) ==
    IF ts = << >> THEN agent
    ELSE LET trade == Head(ts)
             agent2 == IF trade.buyer_id = agent_id
                       THEN update_after_trade(agent, trade.price, trade.quantity, TRUE)
                       ELSE IF trade.seller_id = agent_id
                       THEN update_after_trade(agent, trade.price, trade.quantity, FALSE)
                       ELSE agent
         IN  apply_trades(agent2, agent_id, Tail(ts))

\* run_cycle, the loop body after add_order has returned r for agent a's
\* order without raising: updated is the agent after the order is counted
\* and the trades are applied.  submitted keeps the order with the agent's
\* balance before and after, the trades add_order returned for it, the
\* agents as they were when the agent was asked and the book as add_order
\* left it.
order_booked(st, a, order, r, updated) ==
    [st EXCEPT
        !.book = [buy_orders |-> r.buy_orders, sell_orders |-> r.sell_orders,
                  trades |-> r.trades, current_price |-> r.current_price,
                  next_trade_id |-> r.next_trade_id],
        !.next_order_id = @ + 1,
        !.new_trades = @ \o r.new_trades,
        !.agents[a] = updated,
        !.submitted = Append(@, [order |-> order, balance |-> st.agents[a].balance,
                                 balance_after |-> updated.balance,
                                 trades |-> r.new_trades, asked |-> st.agents,
                                 book |-> [buy_orders |-> r.buy_orders,
                                           sell_orders |-> r.sell_orders]])]

\* run_cycle, the loop body after add_order has returned r for agent a's
\* order: the order is counted and the agent updated by the trades.  st:
\* book (the book state), next_order_id, agents, new_trades, submitted,
\* raised, possible (the draws are ones the agents can make), order_limit
\* (the orders of a run that the model follows), asked (the agents the loop
\* has come to) and work (for every add_order call, the length of the book
\* it scanned and the times it entered the body of its loop).
after_order(st, a, order, r) ==
    LET resting == IF order.order_type = BUY THEN Len(st.book.sell_orders)
                   ELSE Len(st.book.buy_orders)
        counted == [st EXCEPT !.work = Append(@, [resting |-> resting,
                                                  scanned |-> r.scanned])]
    IN  IF r.raised
        THEN [counted EXCEPT
                !.book = [buy_orders |-> r.buy_orders, sell_orders |-> r.sell_orders,
                          trades |-> r.trades, current_price |-> r.current_price,
                          next_trade_id |-> r.next_trade_id],
                !.next_order_id = @ + 1,
                !.raised = TRUE]
        ELSE order_booked(counted, a, order, r,
                          apply_trades(add_order_statistics(st.agents[a],
                                                            order.order_type),
                                       a, r.new_trades))

\* run_cycle, the loop body for agent a with draw d: _generate_agent_order,
\* add_order, the agent's update.
agent_turn(st, d, market_data, a) ==
    IF ~draw_possible(st.agents[a], market_data.current_price, d)
       \/ (d.kind = "order" /\ st.next_order_id > st.order_limit)
    THEN [st EXCEPT !.possible = FALSE]
    ELSE IF ~draw_admitted(st.agents[a], d) THEN st
    ELSE IF OrderInvalid(d.price, d.quantity, a) THEN [st EXCEPT !.raised = TRUE]
    ELSE after_order(
             st, a, Order(st.next_order_id, d.price, d.quantity, d.order_type, a),
             add_order(st.book,
                       Order(st.next_order_id, d.price, d.quantity, d.order_type, a)))

\* The spread of a book state (get_spread after the cycle's orders).
spread_of(b) ==
    LET bid == IF b.buy_orders # << >> THEN Some(b.buy_orders[1].price) ELSE None
        ask == IF b.sell_orders # << >> THEN Some(b.sell_orders[1].price) ELSE None
    IN  IF Truthy(bid) /\ Truthy(ask) THEN Some(ask[1] - bid[1]) ELSE None

\* Mutant: the market data is made anew, from the book as it stands, for
\* every agent.
RECURSIVE agents_loop_refreshing(_, _, _, _)
agents_loop_refreshing(st, draws, market_data, a) ==
    IF a >= num_agents \/ st.raised \/ ~st.possible THEN st
    ELSE LET fresh == [market_data EXCEPT
                         !.spread = spread_of(st.book),
                         !.best_bid = IF st.book.buy_orders # << >>
                                      THEN Some(st.book.buy_orders[1].price)
                                      ELSE None,
                         !.best_ask = IF st.book.sell_orders # << >>
                                      THEN Some(st.book.sell_orders[1].price)
                                      ELSE None]
         IN  agents_loop_refreshing(
                 agent_turn([st EXCEPT !.asked = @ + 1,
                                       !.shown = Append(@, fresh)],
                            draws[a], fresh, a),
                 draws, market_data, a + 1)

\* run_cycle, the loop over the agents from agent id a on, every one of
\* them asked with the market data made before the loop; shown keeps what
\* each agent was asked with.
RECURSIVE agents_loop(_, _, _, _)
agents_loop(st, draws, market_data, a) ==
    IF a >= num_agents \/ st.raised \/ ~st.possible THEN st
    ELSE agents_loop(agent_turn([st EXCEPT !.asked = @ + 1,
                                           !.shown = Append(@, market_data)],
                                draws[a], market_data, a),
                     draws, market_data, a + 1)

\* TradingSimulator.get_simulation_data
get_simulation_data ==
    [cycle |-> cycle,
     order_book |-> get_order_book_data(10),
     agents |-> get_agent_statistics(<< >>, get_current_price(price_history), 0),
     price_history |-> get_history(price_history, 50),
     volume_history |-> get_history(volume_history, 50),
     trade_count_history |-> get_history(trade_count_history, 50),
     total_trades |-> Len(trades),
     total_volume |-> get_total_volume,
     average_spread |-> get_average_spread,
     avg_spread_cycles |-> config.avg_spread_cycles,
     balance_increase_info |-> get_balance_increase_info,
     simulation_stats |-> get_simulation_statistics]

(***************************************************************************)
(* The legacy program: OrderBook (src/order_book.py) and TradingBot        *)
(* (src/trading_bot.py).  price_offset, price_range_min and                *)
(* price_range_max are in thousandths.                                     *)
(***************************************************************************)
\* OrderBook.__init__
OrderBook ==
    [buy_orders |-> << >>, sell_orders |-> << >>, trades |-> << >>,
     current_price |-> initial_price, next_order_id |-> 1, next_trade_id |-> 1]

\* list.sort(key=lambda x: x.price, reverse=...) as the stable sort it is:
\* the elements are placed one after the other, each behind those that do
\* not come after it.
sorted_insert(sorted, x, reverse) ==
    InsertAt(sorted,
             1 + Cardinality({j \in 1 .. Len(sorted) :
                                 IF reverse THEN sorted[j].price >= x.price
                                            ELSE sorted[j].price <= x.price}),
             x)
RECURSIVE sort_by_price(_, _)
sort_by_price(s, reverse) ==
    IF s = << >> THEN << >>
    ELSE sorted_insert(sort_by_price(SubSeq(s, 1, Len(s) - 1), reverse),
                       s[Len(s)], reverse)

\* OrderBook.add_order, the condition of the loop body on the price.
legacy_crosses(order, resting) ==
    IF order.order_type = BUY THEN resting.price <= order.price
                              ELSE resting.price >= order.price

\* OrderBook.add_order, Trade(...): the trade is at the resting order's
\* price.
legacy_trade(trade_id, order, resting, quantity) ==
    IF order.order_type = BUY
    THEN [id |-> trade_id, price |-> resting.price, quantity |-> quantity,
          buyer_id |-> order.agent_id, seller_id |-> resting.agent_id]
    ELSE [id |-> trade_id, price |-> resting.price, quantity |-> quantity,
          buyer_id |-> resting.agent_id, seller_id |-> order.agent_id]

\* OrderBook.add_order, the for loop over the opposing book from position i
\* on.  st: opposing (quantities decremented in place), remaining,
\* new_trades, trades, current_price, next_trade_id, orders_to_remove.
RECURSIVE legacy_loop(_, _, _)

\* the loop after a fill: break when nothing remains
legacy_continue(order, st, i) ==
    IF st.remaining = 0 THEN st ELSE legacy_loop(order, st, i + 1)

legacy_fill(order, st, i, trade_quantity) ==
    legacy_continue(
        order,
        [st EXCEPT
            !.new_trades = Append(@, legacy_trade(st.next_trade_id, order,
                                                  st.opposing[i], trade_quantity)),
            !.trades = Append(@, legacy_trade(st.next_trade_id, order,
                                              st.opposing[i], trade_quantity)),
            !.next_trade_id = @ + 1,
            !.current_price = st.opposing[i].price,
            !.remaining = @ - trade_quantity,
            !.opposing[i].quantity = @ - trade_quantity,
            !.orders_to_remove =
                IF st.opposing[i].quantity = trade_quantity THEN Append(@, i) ELSE @],
        i)

legacy_loop(order, st, i) ==
    IF i > Len(st.opposing) THEN st
    ELSE IF legacy_crosses(order, st.opposing[i]) /\ st.remaining > 0
    THEN legacy_fill(order, st, i, Min(st.remaining, st.opposing[i].quantity))
    ELSE legacy_loop(order, st, i + 1)

\* for i in reversed(orders_to_remove): pop(i)
RECURSIVE pop_reversed(_, _)
pop_reversed(s, orders_to_remove) ==
    IF orders_to_remove = << >> THEN s
    ELSE pop_reversed(PopAt(s, orders_to_remove[Len(orders_to_remove)]),
                      SubSeq(orders_to_remove, 1, Len(orders_to_remove) - 1))

\* OrderBook.add_order, the rest of the order: appended to its own side,
\* which is then sorted.
legacy_rest(own, order, remaining) ==
    IF remaining <= 0 THEN own
    ELSE sort_by_price(Append(own, [order EXCEPT !.quantity = remaining]),
                       order.order_type = BUY)

legacy_start(b, order) ==
    [opposing |-> IF order.order_type = BUY THEN b.sell_orders ELSE b.buy_orders,
     remaining |-> order.quantity, new_trades |-> << >>, trades |-> b.trades,
     current_price |-> b.current_price, next_trade_id |-> b.next_trade_id,
     orders_to_remove |-> << >>]

legacy_finish(b, order, st) ==
    [buy_orders |-> IF order.order_type = BUY
                    THEN legacy_rest(b.buy_orders, order, st.remaining)
                    ELSE pop_reversed(st.opposing, st.orders_to_remove),
     sell_orders |-> IF order.order_type = BUY
                     THEN pop_reversed(st.opposing, st.orders_to_remove)
                     ELSE legacy_rest(b.sell_orders, order, st.remaining),
     trades |-> st.trades, current_price |-> st.current_price,
     next_trade_id |-> st.next_trade_id, new_trades |-> st.new_trades]

\* OrderBook.add_order(order) on the legacy book b: the book it leaves, with
\* the trades it returns in new_trades.
legacy_add_order(b, order) ==
    legacy_finish(b, order, legacy_loop(order, legacy_start(b, order), 1))

\* BotConfig, its defaults
BotConfig ==
    [enabled |-> FALSE, order_interval |-> 10, order_type |-> "random",
     price_offset |-> 10, quantity |-> 10, price_range_min |-> 950,
     price_range_max |-> 1050, last_order_cycle |-> 0]

\* TradingBot.__init__
TradingBot ==
    [config |-> BotConfig, orders_placed |-> 0, buy_orders |-> 0, sell_orders |-> 0,
     total_volume |-> 0]

\* TradingBot.update_config(**kwargs): every keyword that is a field of the
\* configuration is assigned.
update_config(cfg, kwargs) ==
    [k \in DOMAIN cfg |-> IF k \in DOMAIN kwargs THEN kwargs[k] ELSE cfg[k]]

\* BotConfigWindow._save_config: the value of the "enabled" field, None when
\* it is no spelling of true or false (the Cyrillic spellings are left out).
parse_enabled(text) ==
    IF text \in {"true", "1", "yes"} THEN Some(TRUE)
    ELSE IF text \in {"false", "0", "no"} THEN Some(FALSE)
    ELSE None

\* BotConfigWindow._save_config: whether one of its checks raises ValueError.
save_config_invalid(fields) ==
    \/ parse_enabled(fields.enabled) = None
    \/ ~(1 <= fields.order_interval /\ fields.order_interval <= 1000)
    \/ fields.order_type \notin {"buy", "sell", "random", "both"}
    \/ ~(1 <= fields.quantity /\ fields.quantity <= 1000)
    \/ ~(1 <= fields.price_offset /\ fields.price_offset <= 100)
    \/ ~(500 <= fields.price_range_min /\ fields.price_range_min <= 1000)
    \/ ~(1000 <= fields.price_range_max /\ fields.price_range_max <= 2000)
    \/ fields.price_range_min >= fields.price_range_max

\* BotConfigWindow._save_config: the configuration it leaves; the values are
\* assigned after all checks have passed.
save_config(cfg, fields) ==
    IF save_config_invalid(fields) THEN cfg
    ELSE [cfg EXCEPT !.enabled = parse_enabled(fields.enabled)[1],
                     !.order_interval = fields.order_interval,
                     !.order_type = fields.order_type,
                     !.quantity = fields.quantity,
                     !.price_offset = fields.price_offset,
                     !.price_range_min = fields.price_range_min,
                     !.price_range_max = fields.price_range_max]

(***************************************************************************)
(* The legacy strategies (src/trading_strategies.py) and the legacy Agent  *)
(* (src/trading_agent.py).  Prices and balances of the legacy simulator    *)
(* are in thousandths, factors in thousandths; random.random() is a draw u *)
(* in thousandths.                                                         *)
(***************************************************************************)
\* Python's int(n / d) for d > 0: the quotient cut towards zero.
IntOf(n, d) == IF n >= 0 THEN n \div d ELSE -((-n) \div d)

\* price * factor, the factor in thousandths.
Times(price, factor) == (price * factor) \div 1000

Abs(x) == IF x >= 0 THEN x ELSE -x

\* MarketData, the fields a strategy reads.
MarketData(price, history, spread) ==
    [current_price |-> price, price_history |-> history, spread |-> spread]

\* get_strategy_distribution: the strategy of agent i.
get_strategy_distribution(i) ==
    IF i % 10 = 0 THEN "MOMENTUM"
    ELSE IF i % 10 = 1 THEN "MEAN_REVERSION"
    ELSE IF i % 10 = 2 THEN "MARKET_MAKER"
    ELSE IF i % 10 = 3 THEN "SCALPER"
    ELSE IF i % 10 = 4 THEN "VALUE_INVESTOR"
    ELSE "NOISE_TRADER"

\* Mutant: the quantity is emitted as it was computed.
clamp_quantity_none(order_type, price, quantity, agent_balance, agent_position) ==
    quantity

\* The end of the strategies' generate_order: a Buy the balance does not
\* pay for is cut to what it pays for, a Sell above the position to the
\* position.
clamp_quantity(order_type, price, quantity, agent_balance, agent_position) ==
    IF order_type = BUY /\ agent_balance < price * quantity
    THEN IntOf(agent_balance, price)
    ELSE IF order_type = SELL /\ agent_position < quantity
    THEN Max(0, agent_position)
    ELSE quantity

\* if quantity <= 0: return None; return Order(id=0, ...)
emit_order(order_type, price, quantity, agent_id) ==
    IF quantity <= 0 THEN None
    ELSE Some(Order(0, price, quantity, order_type, agent_id))

\* MomentumStrategy (lookback_period 10, momentum_threshold 0.02): the
\* change of the price over the lookback, as the pair of the difference and
\* the price it is relative to.
momentum_should_trade(md) ==
    /\ Len(md.price_history) >= 10
    /\ LET recent == LastSlice(md.price_history, 10)
       IN  Abs(recent[Len(recent)] - recent[1]) * 50 > recent[1]

momentum_generate_order(md, agent_balance, agent_position, agent_id) ==
    IF Len(md.price_history) < 10 THEN None
    ELSE LET recent == LastSlice(md.price_history, 10)
             first == recent[1]
             change == recent[Len(recent)] - first
             order_type == IF change * 50 > first THEN BUY ELSE SELL
             price == IF order_type = BUY THEN Times(md.current_price, 1010)
                      ELSE Times(md.current_price, 990)
             base_quantity == IntOf(agent_balance, md.current_price * 10)
             \* int(base_quantity * min(abs(price_change) * 10, 2))
             quantity == IF Abs(change) * 10 >= 2 * first THEN base_quantity * 2
                         ELSE IntOf(base_quantity * Abs(change) * 10, first)
         IN  IF change * 50 > first \/ change * 50 < -first
             THEN emit_order(order_type, price,
                             clamp_quantity(order_type, price, quantity,
                                            agent_balance, agent_position),
                             agent_id)
             ELSE None

\* MeanReversionStrategy (lookback_period 20, deviation_threshold 0.05);
\* the mean is total / n.
mean_reversion_should_trade(md) ==
    /\ Len(md.price_history) >= 20
    /\ LET recent == LastSlice(md.price_history, 20)
           total == SumSeq(recent)
           n == Len(recent)
       IN  Abs(md.current_price * n - total) * 20 > total

mean_reversion_generate_order(md, agent_balance, agent_position, agent_id) ==
    IF Len(md.price_history) < 20 THEN None
    ELSE LET recent == LastSlice(md.price_history, 20)
             total == SumSeq(recent)
             n == Len(recent)
             above == md.current_price * n * 50 > total * 51
             below == md.current_price * n * 50 < total * 49
             order_type == IF above THEN SELL ELSE BUY
             price == IF above THEN Times(md.current_price, 990)
                      ELSE Times(md.current_price, 1010)
             quantity == IntOf(agent_balance * 15, md.current_price * 100)
         IN  IF above \/ below
             THEN emit_order(order_type, price,
                             clamp_quantity(order_type, price, quantity,
                                            agent_balance, agent_position),
                             agent_id)
             ELSE None

\* MarketMakerStrategy (spread_target 0.02, max_position 100); u is its
\* random.random().
market_maker_generate_order(md, agent_balance, agent_position, agent_id, u) ==
    IF u < 500
    THEN IF agent_position < 100 /\ agent_balance > md.current_price * 10
         THEN LET price == Times(md.current_price, 990)
                  quantity == Min(10, IntOf(agent_balance * 5, price * 100))
              IN  IF quantity > 0
                  THEN Some(Order(0, price, quantity, BUY, agent_id))
                  ELSE None
         ELSE None
    ELSE IF agent_position > -100
         THEN LET price == Times(md.current_price, 1010)
                  quantity == Min(10, IF agent_position < 0 THEN Abs(agent_position)
                                      ELSE 10)
              IN  IF quantity > 0
                  THEN Some(Order(0, price, quantity, SELL, agent_id))
                  ELSE None
         ELSE None

\* ScalperStrategy (profit_target 0.005)
scalper_should_trade(u) == u < 800

scalper_generate_order(md, agent_balance, agent_position, agent_id) ==
    IF md.spread # None /\ md.spread[1] # 0
          /\ md.spread[1] * 100 < md.current_price
    THEN IF agent_position = 0
         THEN LET price == Times(md.current_price, 1001)
                  quantity == Min(5, IntOf(agent_balance, price * 10))
              IN  IF quantity > 0 /\ agent_balance >= price * quantity
                  THEN Some(Order(0, price, quantity, BUY, agent_id))
                  ELSE None
         ELSE IF agent_position > 0
         THEN LET price == Times(md.current_price, 1005)
                  quantity == Min(5, agent_position)
              IN  IF quantity > 0
                  THEN Some(Order(0, price, quantity, SELL, agent_id))
                  ELSE None
         ELSE None
    ELSE None

\* ValueInvestorStrategy (fair_value 100.0, value_threshold 0.1)
fair_value == 100000
value_investor_should_trade(u) == u < 100

value_investor_generate_order(md, agent_balance, agent_position, agent_id) ==
    LET cheap == (md.current_price - fair_value) * 10 < -fair_value
        dear == (md.current_price - fair_value) * 10 > fair_value
        order_type == IF cheap THEN BUY ELSE SELL
        price == IF cheap THEN Times(md.current_price, 1005)
                 ELSE Times(md.current_price, 995)
        quantity == IF cheap THEN IntOf(agent_balance, price * 5)
                    ELSE Min(IntOf(agent_position, 2), agent_position)
    IN  IF cheap \/ dear
        THEN emit_order(order_type, price,
                        clamp_quantity(order_type, price, quantity,
                                       agent_balance, agent_position),
                        agent_id)
        ELSE None

\* NoiseTraderStrategy; d holds its random.random() (u), its
\* random.uniform(0.95, 1.05) (variation) and its random.randint(1, 20)
\* (quantity).
noise_trader_should_trade(u) == u < 300

noise_trader_generate_order(md, agent_balance, agent_position, agent_id, d) ==
    LET order_type == IF d.u < 500 THEN BUY ELSE SELL
        price == Times(md.current_price, d.variation)
    IN  emit_order(order_type, price,
                   clamp_quantity(order_type, price, d.quantity,
                                  agent_balance, agent_position),
                   agent_id)

\* strategy.should_trade of the strategy named, u its random.random().
strategy_should_trade(strategy, md, u) ==
    IF strategy = "MOMENTUM" THEN momentum_should_trade(md)
    ELSE IF strategy = "MEAN_REVERSION" THEN mean_reversion_should_trade(md)
    ELSE IF strategy = "MARKET_MAKER" THEN TRUE
    ELSE IF strategy = "SCALPER" THEN scalper_should_trade(u)
    ELSE IF strategy = "VALUE_INVESTOR" THEN value_investor_should_trade(u)
    ELSE noise_trader_should_trade(u)

\* strategy.generate_order of the strategy named, d the random draws.
strategy_generate_order(strategy, md, agent_balance, agent_position, agent_id, d) ==
    IF strategy = "MOMENTUM"
    THEN momentum_generate_order(md, agent_balance, agent_position, agent_id)
    ELSE IF strategy = "MEAN_REVERSION"
    THEN mean_reversion_generate_order(md, agent_balance, agent_position, agent_id)
    ELSE IF strategy = "MARKET_MAKER"
    THEN market_maker_generate_order(md, agent_balance, agent_position, agent_id, d.u)
    ELSE IF strategy = "SCALPER"
    THEN scalper_generate_order(md, agent_balance, agent_position, agent_id)
    ELSE IF strategy = "VALUE_INVESTOR"
    THEN value_investor_generate_order(md, agent_balance, agent_position, agent_id)
    ELSE noise_trader_generate_order(md, agent_balance, agent_position, agent_id, d)

\* The legacy Agent(agent_id, initial_balance, strategy_type)
LegacyAgent(agent_id, balance, strategy) ==
    [id |-> agent_id, balance |-> balance, position |-> 0, strategy |-> strategy,
     buy_orders_count |-> 0, sell_orders_count |-> 0, total_orders_count |-> 0]

\* The legacy Agent.generate_order.  d.should_trade is what the agent's own
\* should_trade(time.time()) returns: the cooldown against the wall clock
\* and random() < trading_frequency.  The returned order has the agent's id;
\* the agent's counters of orders rise.
agent_generate_order(agent, md, d) ==
    IF ~d.should_trade THEN [agent |-> agent, order |-> None]
    ELSE LET order == strategy_generate_order(agent.strategy, md, agent.balance,
                                              agent.position, agent.id, d)
         IN  IF order = None THEN [agent |-> agent, order |-> None]
             ELSE [agent |->
                       [agent EXCEPT
                          !.total_orders_count = @ + 1,
                          !.buy_orders_count =
                              IF order[1].order_type = BUY THEN @ + 1 ELSE @,
                          !.sell_orders_count =
                              IF order[1].order_type = BUY THEN @ ELSE @ + 1],
                   order |-> order]

(***************************************************************************)
(* The legacy TradingBot and the legacy TradingSimulator.run_cycle          *)
(* (src/trading_bot.py, src/simulator.py).  Prices are in thousandths, the   *)
(* bot's price_offset and price range in thousandths of the price.          *)
(***************************************************************************)
\* The id the simulator gives its bot.
bot_id == -1

\* Mutant: the interval is not looked at.
should_place_order_any_cycle(bot, current_cycle) == bot.config.enabled

\* TradingBot.should_place_order
should_place_order(bot, current_cycle) ==
    IF ~bot.config.enabled THEN FALSE
    ELSE current_cycle - bot.config.last_order_cycle >= bot.config.order_interval

\* TradingBot._determine_order_type, u its random.random() in thousandths.
determine_order_type(bot, u) ==
    IF bot.config.order_type = "buy" THEN Some(BUY)
    ELSE IF bot.config.order_type = "sell" THEN Some(SELL)
    ELSE IF bot.config.order_type \in {"random", "both"}
    THEN Some(IF u < 500 THEN BUY ELSE SELL)
    ELSE None

\* round(x, 2) of a price x given in millionths: the nearest hundredth, in
\* thousandths.  A value half way between two hundredths goes where the
\* float nearest to it lies, which is either side: half_up says which.
round_2(millionths, half_up) ==
    LET q == millionths \div 10000
        r == millionths % 10000
    IN  IF r > 5000 \/ (r = 5000 /\ half_up) THEN (q + 1) * 10 ELSE q * 10

\* TradingBot._generate_price, factor its random.uniform(0.5, 1.5) in
\* thousandths.
bot_generate_price(bot, price, order_type, factor, half_up) ==
    LET offset == Times(bot.config.price_offset, factor)
        raw == IF order_type = BUY THEN price * (1000 - offset)
               ELSE price * (1000 + offset)
        min_price == price * bot.config.price_range_min
        max_price == price * bot.config.price_range_max
    IN  round_2(Max(min_price, Min(max_price, raw)), half_up)

\* TradingBot._generate_quantity, variation its random.uniform(0.8, 1.2) in
\* thousandths.
bot_generate_quantity(bot, variation) ==
    Max(1, IntOf(bot.config.quantity * variation, 1000))

\* TradingBot.generate_order(current_price, current_cycle): the order or
\* None, with the bot as the call leaves it.
bot_generate_order(bot, price, current_cycle, d) ==
    IF ~should_place_order(bot, current_cycle) THEN [bot |-> bot, order |-> None]
    ELSE LET order_type == determine_order_type(bot, d.u)
         IN  IF order_type = None THEN [bot |-> bot, order |-> None]
             ELSE LET quantity == bot_generate_quantity(bot, d.variation)
                  IN  [bot |->
                           [bot EXCEPT
                              !.orders_placed = @ + 1,
                              !.total_volume = @ + quantity,
                              !.buy_orders = IF order_type[1] = BUY THEN @ + 1 ELSE @,
                              !.sell_orders = IF order_type[1] = BUY THEN @ ELSE @ + 1,
                              !.config.last_order_cycle = current_cycle],
                       order |->
                           Some(Order(0,
                                      bot_generate_price(bot, price, order_type[1],
                                                         d.factor, d.half_up),
                                      quantity, order_type[1], bot_id))]

\* The legacy Agent.update_after_trade
legacy_update_after_trade(agent, trade_price, trade_quantity, is_buyer) ==
    IF is_buyer
    THEN [agent EXCEPT !.balance = @ - trade_price * trade_quantity,
                       !.position = @ + trade_quantity]
    ELSE [agent EXCEPT !.balance = @ + trade_price * trade_quantity,
                       !.position = @ - trade_quantity]

\* run_cycle, for trade in trades: the agent that submitted the order is
\* updated as the buyer or else as the seller of each trade.
RECURSIVE legacy_apply_trades(_, _)
legacy_apply_trades(agent, ts) ==
    IF ts = << >> THEN agent
    ELSE LET trade == Head(ts)
         IN  legacy_apply_trades(
                 IF trade.buyer_id = agent.id
                 THEN legacy_update_after_trade(agent, trade.price, trade.quantity, TRUE)
                 ELSE IF trade.seller_id = agent.id
                 THEN legacy_update_after_trade(agent, trade.price, trade.quantity, FALSE)
                 ELSE agent,
                 Tail(ts))

\* run_cycle: the order takes the book's next_order_id and is added to the
\* book b; the book it leaves, with the trades add_order returns in new_trades.
legacy_submit(b, order) ==
    LET numbered == [order EXCEPT !.id = b.next_order_id]
        l == legacy_add_order(b, numbered)
    IN  [book |-> [buy_orders |-> l.buy_orders, sell_orders |-> l.sell_orders,
                   trades |-> l.trades, current_price |-> l.current_price,
                   next_order_id |-> b.next_order_id + 1,
                   next_trade_id |-> l.next_trade_id],
         order |-> numbered,
         new_trades |-> l.new_trades]

\* run_cycle, the market data of the cycle, made before any agent is asked.
legacy_market_data(sim, b) ==
    MarketData(b.current_price, LastSlice(sim.price_history, 50), spread_of(b))

\* Mutant: the agents are visited from the last of the list to the first.
RECURSIVE legacy_agents_loop_descending(_, _, _, _)
legacy_agents_loop_descending(st, md, draws, i) ==
    IF i \notin DOMAIN st.agents THEN st
    ELSE LET j == Cardinality(DOMAIN st.agents) - 1 - i
             g == agent_generate_order(st.agents[j], md, draws[j])
         IN  IF g.order = None THEN legacy_agents_loop_descending(st, md, draws, i + 1)
             ELSE LET s == legacy_submit(st.book, g.order[1])
                  IN  legacy_agents_loop_descending(
                          [agents |-> [st.agents EXCEPT
                                          ![j] = legacy_apply_trades(g.agent,
                                                                     s.new_trades)],
                           book |-> s.book,
                           new_trades |-> st.new_trades \o s.new_trades,
                           submitted |-> Append(st.submitted,
                                                [agent_id |-> j, order |-> s.order,
                                                 trades |-> s.new_trades,
                                                 asked |-> st.agents,
                                                 book |->
                                                     [buy_orders |-> s.book.buy_orders,
                                                      sell_orders |-> s.book.sell_orders]])],
                          md, draws, i + 1)

\* run_cycle, for agent in self.agents, from the i-th agent of the list on.
\* st: agents, book, new_trades; submitted keeps, for every order submitted,
\* the agent's id, the order, its trades, the agents as they were when the
\* agent was asked and the book as add_order left it.
RECURSIVE legacy_agents_loop(_, _, _, _)
legacy_agents_loop(st, md, draws, i) ==
    IF i \notin DOMAIN st.agents THEN st
    ELSE LET g == agent_generate_order(st.agents[i], md, draws[i])
         IN  IF g.order = None THEN legacy_agents_loop(st, md, draws, i + 1)
             ELSE LET s == legacy_submit(st.book, g.order[1])
                  IN  legacy_agents_loop(
                          [agents |-> [st.agents EXCEPT
                                          ![i] = legacy_apply_trades(g.agent,
                                                                     s.new_trades)],
                           book |-> s.book,
                           new_trades |-> st.new_trades \o s.new_trades,
                           submitted |-> Append(st.submitted,
                                                [agent_id |-> i, order |-> s.order,
                                                 trades |-> s.new_trades,
                                                 asked |-> st.agents,
                                                 book |->
                                                     [buy_orders |-> s.book.buy_orders,
                                                      sell_orders |-> s.book.sell_orders]])],
                          md, draws, i + 1)

\* Mutant: the bot's trades are applied to the agents they name.
legacy_bot_step_updating_agents(st, bot, price, current_cycle, d) ==
    LET g == bot_generate_order(bot, price, current_cycle, d)
    IN  IF g.order = None
        THEN [agents |-> st.agents, book |-> st.book, new_trades |-> st.new_trades,
              bot |-> g.bot, bot_order |-> None, bot_trades |-> << >>]
        ELSE LET s == legacy_submit(st.book, g.order[1])
             IN  [agents |-> [i \in DOMAIN st.agents |->
                                 legacy_apply_trades(st.agents[i], s.new_trades)],
                  book |-> s.book,
                  new_trades |-> st.new_trades \o s.new_trades,
                  bot |-> [g.bot EXCEPT
                              !.total_volume = @ + trade_quantities(s.new_trades)],
                  bot_order |-> Some(s.order), bot_trades |-> s.new_trades]

\* run_cycle, the bot's part: its order, when it makes one, is numbered and
\* added to the book, and the quantities of its trades are added to the
\* bot's total_volume.  st: agents, book, new_trades, bot.
legacy_bot_step(st, bot, price, current_cycle, d) ==
    LET g == bot_generate_order(bot, price, current_cycle, d)
    IN  IF g.order = None
        THEN [agents |-> st.agents, book |-> st.book, new_trades |-> st.new_trades,
              bot |-> g.bot, bot_order |-> None, bot_trades |-> << >>]
        ELSE LET s == legacy_submit(st.book, g.order[1])
             IN  [agents |-> st.agents, book |-> s.book,
                  new_trades |-> st.new_trades \o s.new_trades,
                  bot |-> [g.bot EXCEPT
                              !.total_volume = @ + trade_quantities(s.new_trades)],
                  bot_order |-> Some(s.order), bot_trades |-> s.new_trades]

\* TradingSimulator._check_balance_increase for the agents as the cycle left
\* them.
legacy_check_balance_increase(sim, agts) ==
    IF sim.cycle - sim.last_balance_increase_cycle >= sim.balance_increase_cycles
    THEN [sim EXCEPT
            !.agents = [i \in DOMAIN agts |->
                           [agts[i] EXCEPT !.balance = @ + sim.balance_increase_amount]],
            !.last_balance_increase_cycle = sim.cycle]
    ELSE [sim EXCEPT !.agents = agts]

\* TradingSimulator._update_statistics(new_trades) on the book b
legacy_update_statistics(sim, b, new_trades) ==
    LET appended ==
            [sim EXCEPT
               !.price_history = Append(@, b.current_price),
               !.volume_history = Append(@, trade_quantities(new_trades)),
               !.trade_count_history = Append(@, Len(new_trades)),
               !.spread_history = IF spread_of(b) # None
                                  THEN Append(@, spread_of(b)[1]) ELSE @]
    IN  IF Len(appended.price_history) > 1000
        THEN [appended EXCEPT
                !.price_history = LastSlice(@, 1000),
                !.volume_history = LastSlice(@, 1000),
                !.trade_count_history = LastSlice(@, 1000),
                !.spread_history = LastSlice(@, 1000)]
        ELSE appended

(***************************************************************************)
(* Construction                                                            *)
(***************************************************************************)
\* SimulationConfig.__post_init__, the checks of the agents' ranges and of
\* the strategy distribution: whether one raises ValueError.  The ranges are
\* pairs in tenths, the weights a sequence in thousandths.  The sum is a
\* floating point sum: when it is 0.001 off 1.0 as a decimal, its rounding
\* decides on which side of the tolerance it falls (rounded_over).
unit_range_invalid(range) ==
    ~(0 <= range[1] /\ range[1] <= range[2] /\ range[2] <= 10)
cooldown_range_invalid(range) ==
    range[1] < 0 \/ range[2] < 0
distribution_invalid(weights, rounded_over) ==
    LET total == SumSeq(weights)
        off == IF total >= 1000 THEN total - 1000 ELSE 1000 - total
    IN  \/ off > 1
        \/ off = 1 /\ rounded_over
        \/ \E i \in 1 .. Len(weights) : weights[i] < 0 \/ weights[i] > 1000
post_init_raises(args, rounded_over) ==
    \/ unit_range_invalid(args.agent_risk_tolerance_range)
    \/ unit_range_invalid(args.agent_trading_frequency_range)
    \/ unit_range_invalid(args.agent_price_sensitivity_range)
    \/ cooldown_range_invalid(args.agent_trade_cooldown_range)
    \/ distribution_invalid(args.strategy_distribution, rounded_over)

\* SimulationConfig with the fields the model reads; the others keep their
\* values of the configuration above.
SimulationConfig(cycles, amount, history_size) ==
    [balance_increase_cycles |-> cycles,
     balance_increase_amount |-> amount,
     max_history_size |-> history_size,
     max_trades_history |-> max_trades_history,
     avg_spread_cycles |-> initial_avg_spread_cycles,
     performance_mode |-> FALSE,
     skip_volatility_calculation |-> FALSE]

\* TradingSimulator(cfg): the state after construction
\* (OrderBookService.__init__, SimulationService.__init__,
\* AgentService.create_agents).
InitServiceWith(cfg, made) ==
    /\ buy_orders = << >>
    /\ sell_orders = << >>
    /\ trades = << >>
    /\ current_price = initial_price
    /\ next_order_id = 1
    /\ next_trade_id = 1
    /\ cycle = 0
    /\ price_history = << initial_price >>
    /\ volume_history = << 0 >>
    /\ trade_count_history = << 0 >>
    /\ spread_history = << >>
    /\ last_balance_increase_cycle = 0
    /\ agents = made
    /\ config = cfg
    /\ op = [name |-> "init"]
    /\ ret = Returned(<< >>)

\* TradingSimulator(cfg) with the agents AgentService.create_agents makes.
InitService(cfg) ==
    \E made \in create_agents(num_agents) : InitServiceWith(cfg, made)

\* The legacy TradingSimulator.__init__ apart from the order book and the
\* bot it constructs: the agents with the strategies of
\* get_strategy_distribution, the cycle counter, the histories and the
\* balance-increase settings.
LegacySimulator(price, n, balance) ==
    [cycle |-> 0,
     agents |-> [i \in 0 .. n - 1 |->
                    LegacyAgent(i, balance, get_strategy_distribution(i))],
     price_history |-> << price >>,
     volume_history |-> << 0 >>,
     trade_count_history |-> << 0 >>,
     spread_history |-> << >>,
     balance_increase_cycles |-> legacy_balance_increase_cycles,
     balance_increase_amount |-> legacy_balance_increase_amount,
     last_balance_increase_cycle |-> 0]

\* Both programs constructed with the same price, agents and balance, the
\* package's agents being made.
InitWithAgents(cfg, made) ==
    /\ InitServiceWith(cfg, made)
    /\ order_book = OrderBook
    /\ trading_bot = TradingBot
    /\ simulator = LegacySimulator(initial_price, num_agents, initial_balance)

\* Both programs constructed with the same price, agents and balance.
InitWith(cfg) ==
    /\ InitService(cfg)
    /\ order_book = OrderBook
    /\ trading_bot = TradingBot
    /\ simulator = LegacySimulator(initial_price, num_agents, initial_balance)

Init ==
    InitWith(SimulationConfig(initial_balance_increase_cycles,
                              initial_balance_increase_amount, max_history_size))

(***************************************************************************)
(* Operations                                                              *)
(***************************************************************************)
\* A client constructs Order(next_order_id, p, q, t, a), as
\* _generate_agent_order does, and hands it to OrderBookService.add_order.
\* Order.__post_init__ raises for an invalid order, which then never reaches
\* the book.
NewOrder(t, p, q, a) ==
    /\ next_order_id <= MaxOrders
    /\ IF OrderInvalid(p, q, a)
       THEN /\ op' = [name |-> "Order", price |-> p, quantity |-> q]
            /\ ret' = Raised
            /\ UNCHANGED progVars
       ELSE \E order \in {Order(next_order_id, p, q, t, a)} :
            \E r \in {add_order(Book, order)} :
                /\ buy_orders' = r.buy_orders
                /\ sell_orders' = r.sell_orders
                /\ trades' = r.trades
                /\ current_price' = r.current_price
                /\ next_trade_id' = r.next_trade_id
                /\ next_order_id' = next_order_id + 1
                /\ op' = [name |-> "add_order", order |-> order,
                          scanned |-> r.scanned]
                /\ ret' = IF r.raised THEN Raised ELSE Returned(r.new_trades)
                /\ UNCHANGED << simVars, agents, config, legacyVars >>

\* The same order is handed to OrderBookService.add_order and to the legacy
\* OrderBook.add_order.
AddOrderBoth(t, p, q, a) ==
    /\ next_order_id <= MaxOrders
    /\ \E order \in {Order(next_order_id, p, q, t, a)} :
       \E r \in {add_order(Book, order)} :
       \E l \in {legacy_add_order(order_book, order)} :
           /\ buy_orders' = r.buy_orders
           /\ sell_orders' = r.sell_orders
           /\ trades' = r.trades
           /\ current_price' = r.current_price
           /\ next_trade_id' = r.next_trade_id
           /\ next_order_id' = next_order_id + 1
           /\ order_book' = [buy_orders |-> l.buy_orders, sell_orders |-> l.sell_orders,
                             trades |-> l.trades, current_price |-> l.current_price,
                             next_order_id |-> order_book.next_order_id,
                             next_trade_id |-> l.next_trade_id]
           /\ op' = [name |-> "add_order_both", order |-> order]
           /\ ret' = [raised |-> r.raised, value |-> r.new_trades,
                      legacy_value |-> l.new_trades]
           /\ UNCHANGED << simVars, agents, config, trading_bot, simulator >>

\* TradingSimulator.run_cycle with the agents' draws of this cycle.  op
\* keeps the orders submitted, the agents as they are when the loop over the
\* agents is over, just before the balance increase is looked at, whether
\* it was made, the number of agents the loop came to, the work of the
\* add_order calls, the market data made before the loop and the market
\* data each agent was asked with.  A
\* ValueError of MarketData leaves run_cycle before any agent is asked.
run_cycle(draws, order_limit) ==
    /\ LET cycle1 == increment_cycle(cycle)
           market_price == get_current_price(price_history)
           market_data == create_market_data(market_price, get_spread,
                                             get_best_bid, get_best_ask)
           start == [book |-> Book, next_order_id |-> next_order_id, agents |-> agents,
                     new_trades |-> << >>, submitted |-> << >>, raised |-> FALSE,
                     possible |-> TRUE, order_limit |-> order_limit,
                     asked |-> 0, work |-> << >>, shown |-> << >>]
           increase == should_increase_balance(cycle1, last_balance_increase_cycle, config)
       IN  \E st \in {IF market_data_valid(market_data)
                       THEN agents_loop(start, draws, market_data, 0)
                       ELSE [start EXCEPT !.raised = TRUE]} :
           /\ st.possible
           /\ cycle' = cycle1
           /\ buy_orders' = st.book.buy_orders
           /\ sell_orders' = st.book.sell_orders
           /\ trades' = st.book.trades
           /\ current_price' = st.book.current_price
           /\ next_trade_id' = st.book.next_trade_id
           /\ next_order_id' = st.next_order_id
           /\ op' = [name |-> "run_cycle", submitted |-> st.submitted,
                     before_increase |-> st.agents,
                     increased |-> ~st.raised /\ increase,
                     asked |-> st.asked, work |-> st.work,
                     market_data |-> market_data, shown |-> st.shown]
           /\ UNCHANGED << config, legacyVars >>
           /\ IF st.raised
              THEN \* the exception leaves run_cycle after the agents' loop
                   /\ agents' = st.agents
                   /\ ret' = Raised
                   /\ UNCHANGED << price_history, volume_history, trade_count_history,
                                   spread_history, last_balance_increase_cycle >>
              ELSE /\ agents' = IF increase
                                THEN increase_all_balances(st.agents,
                                                           config.balance_increase_amount)
                                ELSE st.agents
                   /\ last_balance_increase_cycle' =
                          IF increase THEN cycle1 ELSE last_balance_increase_cycle
                   \* _update_simulation_statistics
                   /\ price_history' = update_history(price_history, st.book.current_price)
                   /\ volume_history' =
                          update_history(volume_history, trade_quantities(st.new_trades))
                   /\ trade_count_history' =
                          update_history(trade_count_history, Len(st.new_trades))
                   /\ spread_history' =
                          IF spread_of(st.book) # None
                          THEN update_history(spread_history, spread_of(st.book)[1])
                          ELSE spread_history
                   /\ ret' = Returned(st.new_trades)

\* run_cycle, as far as MaxCycle cycles.
RunCycle(draws) ==
    /\ cycle < MaxCycle
    /\ run_cycle(draws, MaxOrders)

\* Mutant: the current price survives the reset.
order_book_reset_keeps_price ==
    [current_price |-> current_price, buy_orders |-> << >>, sell_orders |-> << >>,
     trades |-> << >>, next_order_id |-> 1, next_trade_id |-> 1]

\* OrderBookService.reset: what it leaves in the book's fields.
order_book_reset ==
    [current_price |-> initial_price, buy_orders |-> << >>, sell_orders |-> << >>,
     trades |-> << >>, next_order_id |-> 1, next_trade_id |-> 1]

\* Mutant: the cycle of the last balance increase survives the reset.
simulation_reset_keeps_increase ==
    [cycle |-> 0, price_history |-> << initial_price >>, volume_history |-> << 0 >>,
     trade_count_history |-> << 0 >>, spread_history |-> << >>,
     last_balance_increase_cycle |-> last_balance_increase_cycle]

\* SimulationService.reset: what it leaves in the service's fields.
simulation_reset ==
    [cycle |-> 0, price_history |-> << initial_price >>, volume_history |-> << 0 >>,
     trade_count_history |-> << 0 >>, spread_history |-> << >>,
     last_balance_increase_cycle |-> 0]

\* TradingSimulator.reset: SimulationService.reset, OrderBookService.reset,
\* AgentService.reset_all_agents (the agents are created anew).  op keeps
\* what the simulation held when reset was called.
Reset ==
    /\ cycle' = simulation_reset.cycle
    /\ price_history' = simulation_reset.price_history
    /\ volume_history' = simulation_reset.volume_history
    /\ trade_count_history' = simulation_reset.trade_count_history
    /\ spread_history' = simulation_reset.spread_history
    /\ last_balance_increase_cycle' = simulation_reset.last_balance_increase_cycle
    /\ current_price' = order_book_reset.current_price
    /\ buy_orders' = order_book_reset.buy_orders
    /\ sell_orders' = order_book_reset.sell_orders
    /\ trades' = order_book_reset.trades
    /\ next_order_id' = order_book_reset.next_order_id
    /\ next_trade_id' = order_book_reset.next_trade_id
    /\ agents' \in create_agents(num_agents)
    /\ op' = [name |-> "reset",
              before |-> [cycle |-> cycle,
                          resting |-> Len(buy_orders) + Len(sell_orders),
                          trades |-> Len(trades),
                          current_price |-> current_price]]
    /\ ret' = Returned(<< >>)
    /\ UNCHANGED << config, legacyVars >>

\* TradingSimulator.set_balance_increase_settings and set_avg_spread_cycles:
\* the configuration they leave.
set_balance_increase_settings(cfg, cycles, amount) ==
    [cfg EXCEPT !.balance_increase_cycles = Max(1, Min(cycles, 10000)),
                !.balance_increase_amount = Max(0, amount)]
set_avg_spread_cycles(cfg, cycles) ==
    [cfg EXCEPT !.avg_spread_cycles = Max(1, Min(cycles, 1000))]

\* The two setters as operations; neither has a raise.
SetBalanceIncreaseSettings(cycles, amount) ==
    /\ config' = set_balance_increase_settings(config, cycles, amount)
    /\ op' = [name |-> "set_balance_increase_settings", cycles |-> cycles,
              amount |-> amount]
    /\ ret' = Returned(<< >>)
    /\ UNCHANGED << bookVars, simVars, agents, legacyVars >>

SetAvgSpreadCycles(cycles) ==
    /\ config' = set_avg_spread_cycles(config, cycles)
    /\ op' = [name |-> "set_avg_spread_cycles", cycles |-> cycles]
    /\ ret' = Returned(<< >>)
    /\ UNCHANGED << bookVars, simVars, agents, legacyVars >>

\* TradingSimulator.set_performance_mode(enabled, skip_volatility)
SetPerformanceMode(enabled, skip_volatility) ==
    /\ config' = [config EXCEPT !.performance_mode = enabled,
                                !.skip_volatility_calculation = skip_volatility]
    /\ op' = [name |-> "set_performance_mode", enabled |-> enabled,
              skip_volatility |-> skip_volatility]
    /\ ret' = Returned(<< >>)
    /\ UNCHANGED << bookVars, simVars, agents, legacyVars >>

\* The legacy TradingSimulator.set_bot_config(**kwargs): the keywords go to
\* TradingBot.update_config as they are.
SetBotConfig(kwargs) ==
    /\ trading_bot' = [trading_bot EXCEPT !.config = update_config(@, kwargs)]
    /\ op' = [name |-> "set_bot_config", update |-> kwargs]
    /\ ret' = Returned(<< >>)
    /\ UNCHANGED << bookVars, simVars, agents, config, order_book, simulator >>

\* BotConfigWindow._save_config with the window's fields as entered; a
\* ValueError becomes the window's error message.
SaveConfig(fields) ==
    /\ trading_bot' = [trading_bot EXCEPT !.config = save_config(@, fields)]
    /\ op' = [name |-> "save_config", update |-> fields]
    /\ ret' = IF save_config_invalid(fields) THEN Raised ELSE Returned(<< >>)
    /\ UNCHANGED << bookVars, simVars, agents, config, order_book, simulator >>

\* SimulationConfig(**args) is constructed: __post_init__ raises, or the
\* object is there.
ConstructConfig(args, rounded_over) ==
    /\ op' = [name |-> "SimulationConfig", args |-> args]
    /\ ret' = IF post_init_raises(args, rounded_over) THEN Raised ELSE Returned(<< >>)
    /\ UNCHANGED progVars

\* The queries: each returns what it reads, under its own name in ret, and
\* writes nothing.
GetBestBid ==
    /\ op' = [name |-> "get_best_bid"]
    /\ ret' = [raised |-> FALSE, best_bid |-> get_best_bid]
    /\ UNCHANGED progVars

GetBestAsk ==
    /\ op' = [name |-> "get_best_ask"]
    /\ ret' = [raised |-> FALSE, best_ask |-> get_best_ask]
    /\ UNCHANGED progVars

GetSpread ==
    /\ op' = [name |-> "get_spread"]
    /\ ret' = [raised |-> FALSE, spread |-> get_spread]
    /\ UNCHANGED progVars

\* Agent.can_buy and Agent.can_sell asked of an agent of the simulator.
CanBuy(a, price, quantity) ==
    /\ op' = [name |-> "can_buy", agent_id |-> a, price |-> price,
              quantity |-> quantity]
    /\ ret' = [raised |-> FALSE, can_buy |-> can_buy(agents[a], price, quantity)]
    /\ UNCHANGED progVars

CanSell(a, quantity) ==
    /\ op' = [name |-> "can_sell", agent_id |-> a, quantity |-> quantity]
    /\ ret' = [raised |-> FALSE, can_sell |-> can_sell(agents[a], quantity)]
    /\ UNCHANGED progVars

\* The legacy Agent.generate_order, asked of an agent with the market data
\* of a cycle.
GenerateOrder(agent, md, d) ==
    \E r \in {agent_generate_order(agent, md, d)} :
        /\ op' = [name |-> "generate_order", agent |-> agent, market_data |-> md,
                  draws |-> d]
        /\ ret' = [raised |-> FALSE, order |-> r.order, agent |-> r.agent]
        /\ UNCHANGED progVars

\* The legacy TradingSimulator.run_cycle.  draws[i] holds the random draws
\* of the i-th agent, bot_draw those of the bot.  op keeps the orders
\* submitted by the agents, the agents and the book as the loop over the
\* agents leaves them, the agents as the bot's part leaves them, the bot's
\* order and its trades; ret is the list of trades returned.
LegacyRunCycle(draws, bot_draw) ==
    \E c \in {simulator.cycle + 1} :
    \E md \in {legacy_market_data(simulator, order_book)} :
    \E a \in {legacy_agents_loop([agents |-> simulator.agents, book |-> order_book,
                                  new_trades |-> << >>, submitted |-> << >>],
                                 md, draws, 0)} :
    \E b \in {legacy_bot_step(a, trading_bot, order_book.current_price, c, bot_draw)} :
        /\ order_book' = b.book
        /\ trading_bot' = b.bot
        /\ simulator' =
               legacy_update_statistics(
                   legacy_check_balance_increase([simulator EXCEPT !.cycle = c],
                                                 b.agents),
                   b.book, b.new_trades)
        /\ op' = [name |-> "legacy_run_cycle", submitted |-> a.submitted,
                  before_bot |-> a.agents, book_before_bot |-> a.book,
                  after_bot |-> b.agents, bot_order |-> b.bot_order,
                  bot_trades |-> b.bot_trades]
        /\ ret' = Returned(b.new_trades)
        /\ UNCHANGED << bookVars, simVars, agents, config >>

\* The legacy TradingSimulator.toggle_bot(enabled): None flips the switch.
ToggleBot(enabled) ==
    /\ trading_bot' = [trading_bot EXCEPT
                          !.config.enabled = IF enabled = None THEN ~@ ELSE enabled[1]]
    /\ op' = [name |-> "toggle_bot", enabled |-> enabled]
    /\ ret' = Returned(<< >>)
    /\ UNCHANGED << bookVars, simVars, agents, config, order_book, simulator >>

\* The legacy TradingSimulator.set_balance_increase_settings(cycles, amount)
LegacySetBalanceIncreaseSettings(cycles, amount) ==
    /\ simulator' = [simulator EXCEPT
                        !.balance_increase_cycles = Max(1, Min(cycles, 10000)),
                        !.balance_increase_amount = Max(0, amount)]
    /\ op' = [name |-> "legacy_set_balance_increase_settings", cycles |-> cycles,
              amount |-> amount]
    /\ ret' = Returned(<< >>)
    /\ UNCHANGED << bookVars, simVars, agents, config, order_book, trading_bot >>

\* Mutant: the books are cut to the levels shown.
GetOrderBookData_cutting(levels) ==
    /\ op' = [name |-> "get_order_book_data", levels |-> levels]
    /\ ret' = [raised |-> FALSE, order_book |-> get_order_book_data(levels)]
    /\ buy_orders' = FirstSlice(buy_orders, levels)
    /\ sell_orders' = FirstSlice(sell_orders, levels)
    /\ UNCHANGED << trades, current_price, next_order_id, next_trade_id,
                    simVars, agents, config, legacyVars >>

GetOrderBookData(levels) ==
    /\ op' = [name |-> "get_order_book_data", levels |-> levels]
    /\ ret' = [raised |-> FALSE, order_book |-> get_order_book_data(levels)]
    /\ UNCHANGED progVars

GetSimulationData ==
    /\ op' = [name |-> "get_simulation_data"]
    /\ ret' = [raised |-> FALSE, simulation_data |-> get_simulation_data]
    /\ UNCHANGED progVars

(***************************************************************************)
(* Specifications                                                          *)
(***************************************************************************)
\* The orchestrator: cycles and resets.
Next ==
    \/ \E draws \in [AgentIds -> Draws] : RunCycle(draws)
    \/ Reset

Spec == Init /\ [][Next]_vars

\* The matching engine alone, driven by a client with valid orders.
InitBook == Init /\ \A a \in AgentIds : agents[a].risk_tolerance = 30

NextBook ==
    \E t \in OrderTypes, p \in Prices, q \in Quantities, a \in AgentIds :
        NewOrder(t, p, q, a)

SpecBook == InitBook /\ [][NextBook]_vars

\* The matching engine driven by a client whose orders may be invalid.
BadPrices == {0, -1}
BadQuantities == {0, -5}

NextReject ==
    \E t \in OrderTypes, p \in Prices \cup BadPrices, q \in {10} \cup BadQuantities :
        NewOrder(t, p, q, 0)

SpecReject == InitBook /\ [][NextReject]_vars

\* The orchestrator with a client that reads between the cycles.
ReadDraws == {NoOrder} \cup {Draw(t, p, 5) : t \in OrderTypes, p \in Prices}
ReadLevels == {1, 10}

NextRead ==
    \/ \E draws \in [AgentIds -> ReadDraws] : RunCycle(draws)
    \/ Reset
    \/ GetBestBid
    \/ GetBestAsk
    \/ GetSpread
    \/ \E levels \in ReadLevels : GetOrderBookData(levels)
    \/ GetSimulationData

SpecRead == Init /\ [][NextRead]_vars

\* The long runs: a simulator constructed with one of several balance
\* increase intervals runs up to MaxLongCycle cycles, with few orders (a bid
\* that rests, an ask that rests above it, an ask that meets the bid), and is
\* reset at any time.
IncreaseCycles == {1, 2, 3, 5}
LongDraws == {NoOrder, Draw(BUY, 99, 5), Draw(SELL, 99, 5), Draw(SELL, 101, 5)}
InitLong ==
    \E cycles \in IncreaseCycles :
        InitWith(SimulationConfig(cycles, initial_balance_increase_amount,
                                  max_history_size))
RunLongCycle(draws) ==
    /\ cycle < MaxLongCycle
    /\ run_cycle(draws, MaxOrders)
NextLong ==
    \/ \E draws \in [AgentIds -> LongDraws] : RunLongCycle(draws)
    \/ Reset
SpecLong == InitLong /\ [][NextLong]_vars

\* The settings: the two setters are called with values inside, at the ends
\* of and outside their ranges, between cycles without orders and resets.
SettingCycles == {0, 1, 3, 10000, 10001}
SettingAmounts == {-1, 0, 500}
SettingSpreadCycles == {0, 1, 1000, 1001}
NextSettings ==
    \/ \E cycles \in SettingCycles, amount \in SettingAmounts :
           SetBalanceIncreaseSettings(cycles, amount)
    \/ \E cycles \in SettingSpreadCycles : SetAvgSpreadCycles(cycles)
    \/ RunCycle([a \in AgentIds |-> NoOrder])
    \/ Reset
SpecSettings == InitBook /\ [][NextSettings]_vars

\* The bot's configuration: updates with one field out of its range, or
\* none, come through the window and through set_bot_config.
ValidUpdates ==
    { [enabled |-> e, order_interval |-> 5, order_type |-> t, quantity |-> 20,
       price_offset |-> 20, price_range_min |-> 900, price_range_max |-> 1100] :
          e \in {"true", "false"}, t \in {"buy", "both"} }
BotUpdates ==
    ValidUpdates
    \cup {[u EXCEPT !.enabled = "maybe"] : u \in ValidUpdates}
    \cup {[u EXCEPT !.order_interval = v] : u \in ValidUpdates, v \in {0, 1, 1000, 1001}}
    \cup {[u EXCEPT !.order_type = "hold"] : u \in ValidUpdates}
    \cup {[u EXCEPT !.quantity = v] : u \in ValidUpdates, v \in {0, 1, 1000, 1001}}
    \cup {[u EXCEPT !.price_offset = v] : u \in ValidUpdates, v \in {0, 1, 100, 101}}
    \cup {[u EXCEPT !.price_range_min = v] : u \in ValidUpdates, v \in {499, 500, 1000, 1001}}
    \cup {[u EXCEPT !.price_range_max = v] : u \in ValidUpdates, v \in {999, 1000, 2000, 2001}}
    \cup {[u EXCEPT !.price_range_min = 1000, !.price_range_max = 1000] : u \in ValidUpdates}
\* The keywords of set_bot_config: the values the window's fields stand for.
Keywords(u) == [u EXCEPT !.enabled = (u.enabled = "true")]
NextBot ==
    \/ \E u \in BotUpdates : SaveConfig(u)
    \/ \E u \in BotUpdates : SetBotConfig(Keywords(u))
SpecBot == InitBook /\ [][NextBot]_vars

\* The construction of configurations: two of the ranges at a time, or the
\* strategy distribution, take values inside, at the ends of and outside
\* their bounds, the rest the defaults.
RangeEnds == {-1, 0, 5, 10, 20}
Ranges == RangeEnds \X RangeEnds
DefaultArgs ==
    [agent_risk_tolerance_range |-> << 3, 8 >>,
     agent_trading_frequency_range |-> << 1, 4 >>,
     agent_price_sensitivity_range |-> << 5, 10 >>,
     agent_trade_cooldown_range |-> << 5, 20 >>,
     strategy_distribution |-> << 100, 100, 100, 100, 100, 500 >>]
Distributions ==
    {<< 500, 500 >>, << 500, 499 >>, << 500, 501 >>, << 500, 498 >>, << 500, 502 >>,
     << 1500, -500 >>}
ConfigArgs ==
    {[DefaultArgs EXCEPT !.agent_risk_tolerance_range = r,
                         !.agent_trade_cooldown_range = c] : r \in Ranges, c \in Ranges}
    \cup {[DefaultArgs EXCEPT !.agent_trading_frequency_range = f,
                              !.agent_price_sensitivity_range = p] :
              f \in Ranges, p \in Ranges}
    \cup {[DefaultArgs EXCEPT !.strategy_distribution = d] : d \in Distributions}
NextConfig ==
    \E args \in ConfigArgs, rounded_over \in BOOLEAN : ConstructConfig(args, rounded_over)
SpecConfig == InitBook /\ [][NextConfig]_vars

\* The agents' own orders: in a run with the balance increase every 5
\* cycles, the agents bid and offer 10 at 101, so that an agent's offer meets
\* the agent's own resting bid.
OwnDraws == {NoOrder, Draw(BUY, 101, 10), Draw(SELL, 101, 10)}
InitOwn ==
    InitWith(SimulationConfig(5, initial_balance_increase_amount, max_history_size))
RunOwnCycle(draws) ==
    /\ cycle < MaxLongCycle
    /\ run_cycle(draws, MaxOwnOrders)
NextOwn ==
    \/ \E draws \in [AgentIds -> OwnDraws] : RunOwnCycle(draws)
    \/ Reset
SpecOwn == InitOwn /\ [][NextOwn]_vars

\* The two order books side by side: every order goes to both.
NextBoth ==
    \E t \in OrderTypes, p \in Prices, q \in Quantities, a \in AgentIds :
        AddOrderBoth(t, p, q, a)
SpecBoth == InitBook /\ [][NextBoth]_vars

\* The same runs of a simulator constructed with one of several history
\* sizes.
HistorySizes == {1, 2, 3, 4}
InitHistory ==
    \E history_size \in HistorySizes :
        InitWith(SimulationConfig(initial_balance_increase_cycles,
                                  initial_balance_increase_amount, history_size))
SpecHistory == InitHistory /\ [][NextLong]_vars

\* The agents' checks, asked between the cycles of a simulator whose agents
\* buy and sell.
NextCan ==
    \/ NextOwn
    \/ \E a \in AgentIds, p \in Prices, q \in Quantities : CanBuy(a, p, q)
    \/ \E a \in AgentIds, q \in Quantities : CanSell(a, q)
SpecCan == InitOwn /\ [][NextCan]_vars

\* The matching engine of a simulator constructed with one of several caps
\* of the trade history.
TradeCaps == {1, 2, max_trades_history}
InitTrades ==
    /\ \E cap \in TradeCaps :
           InitWith([SimulationConfig(initial_balance_increase_cycles,
                                      initial_balance_increase_amount,
                                      max_history_size)
                         EXCEPT !.max_trades_history = cap])
    /\ \A a \in AgentIds : agents[a].risk_tolerance = 30
NextTrades ==
    \E t \in OrderTypes, q \in Quantities, a \in AgentIds :
        NewOrder(t, initial_price, q, a)
SpecTrades == InitTrades /\ [][NextTrades]_vars

\* The legacy agents' orders: an agent of each strategy, with one of several
\* balances and positions, is asked for an order on one of several markets.
\* A market's price history is flat at 100 up to its last price, the
\* current price.  Each run asks one agent once.
StrategyAgentIds == 0 .. 5
StrategyBalances == {0, 500000, 2000000}
StrategyPositions == {-5, 0, 1, 8}
MarketPrices == {85000, 97000, 100000, 103000, 115000}
HistoryLengths == {5, 10, 20}
Spreads == {None, Some(500), Some(2000)}
Uniforms == {50, 400, 900}
StrategyDraws ==
    [should_trade : BOOLEAN, u : Uniforms, variation : {950, 1050}, quantity : {1, 20}]
Ramp(last, n) == [i \in 1 .. n |-> IF i < n THEN 100000 ELSE last]
Markets ==
    {MarketData(p, Ramp(p, n), s) : p \in MarketPrices, n \in HistoryLengths,
                                    s \in Spreads}
StrategyAgents ==
    {[LegacyAgent(i, b, get_strategy_distribution(i)) EXCEPT !.position = p] :
         i \in StrategyAgentIds, b \in StrategyBalances, p \in StrategyPositions}
NextStrategy ==
    /\ op.name = "init"
    /\ \E agent \in StrategyAgents, md \in Markets, d \in StrategyDraws :
           GenerateOrder(agent, md, d)
SpecStrategy == Init /\ [][NextStrategy]_vars

\* The legacy simulator, TradingSimulator(100.0, 6, 2000.0) in thousandths:
\* one agent of every strategy.  The maker and the noise trader draw their
\* orders; the other agents always pass their own should_trade, and trade
\* when their strategy finds its signal.  The bot is switched on and off and
\* configured while the cycles run.  The balance increase is due every
\* second cycle, as set_balance_increase_settings(2, 1000.0) leaves it.
InitLegacy ==
    /\ InitService(SimulationConfig(initial_balance_increase_cycles,
                                    initial_balance_increase_amount,
                                    max_history_size))
    /\ agents = CHOOSE made \in create_agents(num_agents) : TRUE
    /\ order_book = [OrderBook EXCEPT !.current_price = legacy_initial_price]
    /\ trading_bot = TradingBot
    /\ simulator = [LegacySimulator(legacy_initial_price, legacy_num_agents,
                                    legacy_initial_balance)
                        EXCEPT !.balance_increase_cycles = 2]
Go == [should_trade |-> TRUE, u |-> 50, variation |-> 950, quantity |-> 1]
Idle == [Go EXCEPT !.should_trade = FALSE]
MakerDraws == {Idle} \cup {[Go EXCEPT !.u = u] : u \in {50, 900}}
NoiseDraws ==
    {[Go EXCEPT !.u = u, !.variation = v, !.quantity = 20] :
         u \in {50, 900}, v \in {950, 1050}}
LegacyDraws ==
    {[i \in 0 .. legacy_num_agents - 1 |->
         IF get_strategy_distribution(i) = "MARKET_MAKER" THEN m
         ELSE IF get_strategy_distribution(i) = "NOISE_TRADER" THEN n
         ELSE Go] : m \in MakerDraws, n \in NoiseDraws}
BotDraws == [u : {50, 900}, factor : {500}, variation : {1200},
             half_up : BOOLEAN]
LegacyKeywords == {[order_interval |-> 1]}
NextLegacy ==
    \/ /\ simulator.cycle < MaxLegacyCycle
       /\ \E draws \in LegacyDraws, bot_draw \in BotDraws :
              LegacyRunCycle(draws, bot_draw)
    \/ \E enabled \in {None, Some(TRUE), Some(FALSE)} : ToggleBot(enabled)
    \/ \E k \in LegacyKeywords : SetBotConfig(k)
SpecLegacy == InitLegacy /\ [][NextLegacy]_vars

\* The cadence of the bot: the legacy simulator as constructed, its agents
\* idle (none passes its own should_trade), while the bot is switched on
\* and off, its interval is set and the balance increase is configured.
InitCadence ==
    /\ InitService(SimulationConfig(initial_balance_increase_cycles,
                                    initial_balance_increase_amount,
                                    max_history_size))
    /\ agents = CHOOSE made \in create_agents(num_agents) : TRUE
    /\ order_book = [OrderBook EXCEPT !.current_price = legacy_initial_price]
    /\ trading_bot = TradingBot
    /\ simulator = LegacySimulator(legacy_initial_price, legacy_num_agents,
                                   legacy_initial_balance)
IdleDraws == [i \in 0 .. legacy_num_agents - 1 |-> Idle]
CadenceIntervals == {1, 2, 3}
NextCadence ==
    \/ /\ simulator.cycle < MaxCadenceCycle
       /\ \E bot_draw \in BotDraws : LegacyRunCycle(IdleDraws, bot_draw)
    \/ \E enabled \in {None, Some(TRUE), Some(FALSE)} : ToggleBot(enabled)
    \/ \E i \in CadenceIntervals : SetBotConfig([order_interval |-> i])
    \/ LegacySetBalanceIncreaseSettings(2, 500000)
SpecCadence == InitCadence /\ [][NextCadence]_vars

\* The cycles of either simulator.  The two are separate programs: a run
\* is a run of the legacy simulator with its bot, or a run of the
\* package's simulator, whose agents bid and offer around the price.
ServiceUntouched == cycle = 0
LegacyUntouched ==
    /\ simulator.cycle = 0
    /\ trading_bot = TradingBot
NextCycles ==
    \/ ServiceUntouched /\ NextLegacy
    \/ LegacyUntouched /\ \E draws \in [AgentIds -> LongDraws] : RunCycle(draws)
SpecCycles == InitLegacy /\ [][NextCycles]_vars


\* The work of a cycle: the agents bid 5 at 99 and offer 10 at 99, so that
\* an offer trades with the two bids resting in the book, one after the
\* other; the simulator is reset at any time.
ScanDraws == {NoOrder, Draw(BUY, 99, 5), Draw(SELL, 99, 10)}
NextScan ==
    \/ \E draws \in [AgentIds -> ScanDraws] : RunCycle(draws)
    \/ Reset
SpecScan == Init /\ [][NextScan]_vars


\* The bounded short: a run that starts when agent 1 has gone short before.
\* Its ledger is that of an agent who sold short some units at the initial
\* price, up to the limit of can_short_sell; the counters of the run so far
\* are not kept.  Agent 0 bids 5 at the price, and the agents offer 5 and 10.
ShortPositions == {-1000, -995, -990}
ShortDraws == {NoOrder, Draw(BUY, 100, 5), Draw(SELL, 100, 5), Draw(SELL, 100, 10)}
InitShort ==
    \E p \in ShortPositions :
        InitWithAgents(
            SimulationConfig(initial_balance_increase_cycles,
                             initial_balance_increase_amount, max_history_size),
            [a \in AgentIds |->
                IF a = 1
                THEN [create_agent(30) EXCEPT
                        !.position = p,
                        !.balance = initial_balance - p * initial_price,
                        !.total_volume_traded = -p,
                        !.total_value_traded = -p * initial_price]
                ELSE create_agent(30)])
NextShort ==
    \/ \E draws \in [AgentIds -> ShortDraws] : RunCycle(draws)
    \/ Reset
SpecShort == InitShort /\ [][NextShort]_vars


\* The volatility: six cycles of a simulation whose histories keep every
\* cycle, a bid and an offer at 95 that move the price once, and the
\* performance mode switched on with and without the volatility skipped.
MaxVolatilityCycle == 6
VolatilityDraws == {NoOrder, Draw(BUY, 95, 5), Draw(SELL, 95, 5)}
InitVolatility ==
    InitWithAgents(SimulationConfig(initial_balance_increase_cycles,
                                    initial_balance_increase_amount, 10),
                   [a \in AgentIds |-> create_agent(30)])
RunVolatilityCycle(draws) ==
    /\ cycle < MaxVolatilityCycle
    /\ run_cycle(draws, MaxOrders)
NextVolatility ==
    \/ \E draws \in [AgentIds -> VolatilityDraws] : RunVolatilityCycle(draws)
    \/ \E skip_volatility \in BOOLEAN : SetPerformanceMode(TRUE, skip_volatility)
SpecVolatility == InitVolatility /\ [][NextVolatility]_vars

\* The interval of the balance increase changed between the cycles of a run
\* without orders, to values below and above the cycles gone by since the
\* last increase.
IntervalAmounts == {0, 500}
NextInterval ==
    \/ RunLongCycle([a \in AgentIds |-> NoOrder])
    \/ \E cycles \in IncreaseCycles, amount \in IntervalAmounts :
           SetBalanceIncreaseSettings(cycles, amount)
    \/ Reset
SpecInterval == InitLong /\ [][NextInterval]_vars

(***************************************************************************)
(* Definitions the properties share                                        *)
(***************************************************************************)
\* The step is an add_order call.
IsAddOrder == op'.name = "add_order"
\* The book on the other side of order o, and on its own side.
OpposingOf(o, buys, sells) == IF o.order_type = BUY THEN sells ELSE buys
OwnOf(o, buys, sells) == IF o.order_type = BUY THEN buys ELSE sells

\* The subsequence of book b that order o can trade with, in book order.
RECURSIVE Crossable(_, _)
Crossable(o, b) ==
    IF b = << >> THEN << >>
    ELSE IF crosses(o, Head(b)) THEN << Head(b) >> \o Crossable(o, Tail(b))
    ELSE Crossable(o, Tail(b))

RECURSIVE QuantityOf(_)
QuantityOf(b) == IF b = << >> THEN 0 ELSE Head(b).quantity + QuantityOf(Tail(b))

OrderIds(b) == {b[i].id : i \in 1 .. Len(b)}
PricesOf(b) == {b[i].price : i \in 1 .. Len(b)}

(***************************************************************************)
(* C1: every trade add_order produces, for an incoming Buy and for an      *)
(* incoming Sell, has the price of the order that was resting in the book  *)
(* before the match: the k-th trade of a call is made with the k-th        *)
(* resting order the incoming order can trade with.                        *)
(***************************************************************************)
C1_TradePriceIsRestingPrice ==
    [][IsAddOrder /\ ~ret'.raised =>
         LET o == op'.order
             resting == Crossable(o, OpposingOf(o, buy_orders, sell_orders))
         IN  \A k \in 1 .. Len(ret'.value) :
                 /\ k <= Len(resting)
                 /\ ret'.value[k].price = resting[k].price]_vars

(***************************************************************************)
(* C2: the buy book is ordered by price non-increasing and the sell book   *)
(* by price non-decreasing, and of two resting orders with the same price  *)
(* on one side the one that arrived first (the lower order id) comes       *)
(* first.                                                                  *)
(***************************************************************************)
BuyBookOrdered(b) ==
    \A i \in 1 .. Len(b) - 1 :
        \/ b[i].price > b[i + 1].price
        \/ b[i].price = b[i + 1].price /\ b[i].id < b[i + 1].id

SellBookOrdered(b) ==
    \A i \in 1 .. Len(b) - 1 :
        \/ b[i].price < b[i + 1].price
        \/ b[i].price = b[i + 1].price /\ b[i].id < b[i + 1].id

\* C2: both books are in price order, earlier arrival first at equal price.
C2_BooksOrdered == BuyBookOrdered(buy_orders) /\ SellBookOrdered(sell_orders)

\* A book holding two orders at one price and one at another price.
C2_Witness ==
    \/ /\ Len(buy_orders) = 3
       /\ buy_orders[1].price > buy_orders[2].price
       /\ buy_orders[2].price = buy_orders[3].price
    \/ /\ Len(sell_orders) = 3
       /\ sell_orders[1].price = sell_orders[2].price
       /\ sell_orders[2].price < sell_orders[3].price

(***************************************************************************)
(* C3: price-time priority within one add_order call: a resting order is   *)
(* filled (its quantity falls, or it leaves the book) only if every        *)
(* resting order of its side with a better price, or with the same price   *)
(* and an earlier arrival, is gone from the book after the call.           *)
(***************************************************************************)
\* Resting order x goes before resting order y for the incoming order o.
Before(o, x, y) ==
    \/ IF o.order_type = BUY THEN x.price < y.price ELSE x.price > y.price
    \/ x.price = y.price /\ x.id < y.id

\* The order at position i of book b is filled in the step to book b2.
FilledIn(b, i, b2) ==
    \/ b[i].id \notin OrderIds(b2)
    \/ \E j \in 1 .. Len(b2) : b2[j].id = b[i].id /\ b2[j].quantity < b[i].quantity

\* C3: a resting order is filled only once every resting order that goes
\* before it has left the book.
C3_PriceTimePriority ==
    [][IsAddOrder =>
         LET o == op'.order
             b == OpposingOf(o, buy_orders, sell_orders)
             b2 == OpposingOf(o, buy_orders', sell_orders')
         IN  \A i, j \in 1 .. Len(b) :
                 FilledIn(b, i, b2) /\ Before(o, b[j], b[i])
                     => b[j].id \notin OrderIds(b2)]_vars

\* An incoming order has filled one resting order completely and the next
\* one in part.
C3_Witness ==
    /\ op.name = "add_order"
    /\ ~ret.raised
    /\ Len(ret.value) = 2
    /\ Len(OpposingOf(op.order, buy_orders, sell_orders)) >= 1

(***************************************************************************)
(* C5: for an incoming order of quantity q and limit price p, the k-th     *)
(* trade has quantity min(what is left of q, quantity of the k-th resting  *)
(* order it can trade with), the traded total is min(q, the quantity       *)
(* resting at prices it can trade with), and what is left, if any, rests   *)
(* at price p on the order's own side, nothing resting when nothing is     *)
(* left.  With sells 10@99 and 10@101 resting, Buy 15@100 gives one trade  *)
(* 10@99, Buy 5@100 resting, best bid 100, best ask 101, spread 1.         *)
(***************************************************************************)
\* The quantity of the first k trades of ts.
RECURSIVE TradedUpTo(_, _)
TradedUpTo(ts, k) == IF k = 0 THEN 0 ELSE ts[k].quantity + TradedUpTo(ts, k - 1)

\* The documented example: the book before, the incoming order.
ExampleBefore ==
    /\ buy_orders = << >>
    /\ Len(sell_orders) = 2
    /\ sell_orders[1].price = 99 /\ sell_orders[1].quantity = 10
    /\ sell_orders[2].price = 101 /\ sell_orders[2].quantity = 10

ExampleOrder(o) == o.order_type = BUY /\ o.price = 100 /\ o.quantity = 15

\* The documented example: the trades returned and the book after.
ExampleAfter(ts) ==
    /\ Len(ts) = 1
    /\ ts[1].price = 99 /\ ts[1].quantity = 10
    /\ Len(buy_orders) = 1
    /\ buy_orders[1].price = 100 /\ buy_orders[1].quantity = 5
    /\ Len(sell_orders) = 1
    /\ sell_orders[1].price = 101 /\ sell_orders[1].quantity = 10
    /\ get_best_bid = Some(100)
    /\ get_best_ask = Some(101)
    /\ get_spread = Some(1)

\* C5: the trades' quantities, the traded total, the resting remainder, and
\* the documented example.
C5_FillAndRest ==
    [][IsAddOrder /\ ~ret'.raised =>
         LET o == op'.order
             ts == ret'.value
             resting == Crossable(o, OpposingOf(o, buy_orders, sell_orders))
             own == OwnOf(o, buy_orders, sell_orders)
             own2 == OwnOf(o, buy_orders', sell_orders')
             left == o.quantity - trade_quantities(ts)
         IN  /\ Len(ts) <= Len(resting)
             /\ \A k \in 1 .. Len(ts) :
                    ts[k].quantity =
                        Min(o.quantity - TradedUpTo(ts, k - 1), resting[k].quantity)
             /\ trade_quantities(ts) = Min(o.quantity, QuantityOf(resting))
             /\ IF left > 0
                THEN /\ Len(own2) = Len(own) + 1
                     /\ OrderIds(own2) = OrderIds(own) \cup {o.id}
                     /\ \E i \in 1 .. Len(own2) :
                            own2[i] = [o EXCEPT !.quantity = left]
                ELSE own2 = own
             /\ (ExampleBefore /\ ExampleOrder(o) => ExampleAfter(ret.value)')]_vars

\* The state after the documented example.
C5_Witness ==
    /\ op.name = "add_order"
    /\ ExampleOrder(op.order)
    /\ ~ret.raised
    /\ ExampleAfter(ret.value)

(***************************************************************************)
(* C6: an order with price <= 0 or quantity <= 0 is rejected with an       *)
(* error at its construction, and the rejection changes neither book, nor  *)
(* the trade history, nor the current price; no such order reaches         *)
(* add_order.                                                              *)
(***************************************************************************)
C6_InvalidOrderRejected ==
    [][/\ op'.name = "Order" =>
             /\ ret'.raised
             /\ UNCHANGED << buy_orders, sell_orders, trades, current_price >>
       /\ op'.name \in {"Order", "add_order"} =>
             LET price == IF IsAddOrder THEN op'.order.price ELSE op'.price
                 quantity == IF IsAddOrder THEN op'.order.quantity ELSE op'.quantity
             IN  (price <= 0 \/ quantity <= 0) => op'.name = "Order"]_vars

\* An order with a quantity <= 0 and a valid price has been rejected while
\* orders rest on both sides.
C6_Witness ==
    /\ op.name = "Order"
    /\ op.quantity <= 0
    /\ op.price > 0
    /\ ret.raised
    /\ buy_orders # << >>
    /\ sell_orders # << >>

(***************************************************************************)
(* C7: add_order with a valid order never raises; when no resting order    *)
(* of the other side can trade with it, it returns no trade, leaves the    *)
(* other side's book, the trade history and the current price unchanged,   *)
(* and the order rests with its full quantity.                             *)
(***************************************************************************)
C7_NoMatchRests ==
    [][IsAddOrder =>
         LET o == op'.order
             opposing == OpposingOf(o, buy_orders, sell_orders)
             own == OwnOf(o, buy_orders, sell_orders)
             own2 == OwnOf(o, buy_orders', sell_orders')
         IN  /\ ~ret'.raised
             /\ Crossable(o, opposing) = << >> =>
                    /\ ret'.value = << >>
                    /\ OpposingOf(o, buy_orders', sell_orders') = opposing
                    /\ trades' = trades
                    /\ current_price' = current_price
                    /\ Len(own2) = Len(own) + 1
                    /\ \E i \in 1 .. Len(own2) : own2[i] = o]_vars

\* An order has come to rest while the other side held an order it could
\* not trade with, after a trade had moved the price.
C7_Witness ==
    /\ op.name = "add_order"
    /\ ~ret.raised
    /\ ret.value = << >>
    /\ OpposingOf(op.order, buy_orders, sell_orders) # << >>
    /\ trades # << >>
    /\ \E i \in 1 .. Len(OwnOf(op.order, buy_orders, sell_orders)) :
           OwnOf(op.order, buy_orders, sell_orders)[i] = op.order

(***************************************************************************)
(* C8: the best bid is the highest price among the resting buy orders      *)
(* (none when there is no buy order), the best ask the lowest price among  *)
(* the resting sell orders (none when there is no sell order), and the     *)
(* spread is best ask - best bid when both exist and none otherwise.       *)
(***************************************************************************)
Highest(S) == CHOOSE x \in S : \A y \in S : y <= x
Lowest(S) == CHOOSE x \in S : \A y \in S : y >= x

\* C8: best bid, best ask and spread are the extremes of the resting prices
\* and their difference.
C8_BestPrices ==
    /\ get_best_bid = IF buy_orders = << >> THEN None
                      ELSE Some(Highest(PricesOf(buy_orders)))
    /\ get_best_ask = IF sell_orders = << >> THEN None
                      ELSE Some(Lowest(PricesOf(sell_orders)))
    /\ get_spread = IF buy_orders = << >> \/ sell_orders = << >> THEN None
                    ELSE Some(Lowest(PricesOf(sell_orders)) - Highest(PricesOf(buy_orders)))

\* Two buy orders at different prices and a sell order rest.
C8_Witness ==
    /\ Len(buy_orders) = 2
    /\ buy_orders[1].price # buy_orders[2].price
    /\ Len(sell_orders) = 1
    /\ get_spread # None

(***************************************************************************)
(* C4: for every trade produced in run_cycle both parties' ledgers are     *)
(* updated: the buyer's position rises by the quantity and its cash falls  *)
(* by price * quantity, the seller's position falls by the quantity and    *)
(* its cash rises by price * quantity, also for the party whose order was  *)
(* resting; so the agents' positions sum to 0 and their cash changes in    *)
(* sum only by the balance increases.                                      *)
(***************************************************************************)
\* Units agent a got (positive) or gave in the trades ts, and what it paid
\* (negative) or received for them.
RECURSIVE PositionChange(_, _)
PositionChange(a, ts) ==
    IF ts = << >> THEN 0
    ELSE (IF Head(ts).buyer_id = a THEN Head(ts).quantity ELSE 0)
         - (IF Head(ts).seller_id = a THEN Head(ts).quantity ELSE 0)
         + PositionChange(a, Tail(ts))

RECURSIVE CashChange(_, _)
CashChange(a, ts) ==
    IF ts = << >> THEN 0
    ELSE (IF Head(ts).seller_id = a THEN Head(ts).price * Head(ts).quantity ELSE 0)
         - (IF Head(ts).buyer_id = a THEN Head(ts).price * Head(ts).quantity ELSE 0)
         + CashChange(a, Tail(ts))

\* The balance increase of the step, 0 when there is none.
Increased ==
    IF last_balance_increase_cycle' # last_balance_increase_cycle
    THEN config.balance_increase_amount ELSE 0

\* C4: after a cycle every agent's position and balance have moved by all
\* the cycle's trades it is a party of, and by the balance increase.
C4_BothLedgersUpdated ==
    [][op'.name = "run_cycle" /\ ~ret'.raised =>
         \A a \in AgentIds :
             /\ agents'[a].position =
                    agents[a].position + PositionChange(a, ret'.value)
             /\ agents'[a].balance =
                    agents[a].balance + CashChange(a, ret'.value) + Increased]_vars

(***************************************************************************)
(* C9: get_best_bid, get_best_ask, get_spread, get_order_book_data(levels)  *)
(* and get_simulation_data change no state (books with their resting       *)
(* quantities, trade history, current price, cycle, agents' ledgers,       *)
(* histories, configuration), and a call that repeats the call before it   *)
(* returns what that call returned.                                        *)
(***************************************************************************)
C9_QueriesChangeNoState ==
    [][op'.name \in {"get_best_bid", "get_best_ask", "get_spread",
                     "get_order_book_data", "get_simulation_data"} =>
           /\ UNCHANGED progVars
           /\ ~ret'.raised
           /\ op' = op => ret' = ret]_vars

\* The order book has been read one level deep while two orders rest on a
\* side.
C9_Witness ==
    /\ op.name = "get_order_book_data"
    /\ op.levels = 1
    /\ Len(buy_orders) = 2
    /\ Len(ret.order_book.buy_levels) = 1
    /\ cycle >= 1

(***************************************************************************)
(* C10: every run_cycle call raises the cycle counter by exactly 1, only   *)
(* reset lowers it (to 0), and no other call changes it; the counter is 0  *)
(* after construction, so after k run_cycle calls since construction or    *)
(* the last reset it is k.                                                 *)
(***************************************************************************)
C10_CycleCounts ==
    /\ cycle = 0
    /\ [][/\ op'.name = "run_cycle" => cycle' = cycle + 1
          /\ op'.name = "reset" => cycle' = 0
          /\ op'.name \notin {"run_cycle", "reset"} => cycle' = cycle
          /\ cycle' < cycle => op'.name = "reset"]_vars

\* Two cycles have run since construction or the last reset.
C10_Witness ==
    /\ op.name = "run_cycle"
    /\ cycle = 2
    /\ Len(trade_count_history) = 3

(***************************************************************************)
(* C11: after reset, from any state, the simulation snapshot reports cycle *)
(* 0, the configured initial price as the current price (of the book and   *)
(* of the price history) and empty buy and sell books; a                   *)
(* get_simulation_data call that follows the reset returns just that.      *)
(***************************************************************************)
SnapshotIsFresh(data) ==
    /\ data.cycle = 0
    /\ data.order_book.current_price = initial_price
    /\ data.simulation_stats.current_price = initial_price
    /\ data.order_book.buy_levels = << >>
    /\ data.order_book.sell_levels = << >>
    /\ data.order_book.total_buy_orders = 0
    /\ data.order_book.total_sell_orders = 0
    /\ data.order_book.best_bid = None
    /\ data.order_book.best_ask = None

\* C11: the snapshot taken after a reset is the snapshot of the state the
\* reset has left, and is that of a fresh simulation.
C11_ResetSnapshot ==
    [][op.name = "reset" /\ op'.name = "get_simulation_data" =>
           /\ ret'.simulation_data = get_simulation_data
           /\ SnapshotIsFresh(ret'.simulation_data)]_vars

\* A reset has been called after two cycles, with orders resting and the
\* current price moved by a trade.
C11_Witness ==
    /\ op.name = "reset"
    /\ op.before.cycle = 2
    /\ op.before.resting > 0
    /\ op.before.trades > 0
    /\ op.before.current_price # initial_price
    /\ cycle = 0
    /\ buy_orders = << >>
    /\ sell_orders = << >>
    /\ current_price = initial_price

(***************************************************************************)
(* C12: there are num_agents agents after construction, after every        *)
(* run_cycle and after reset, in the agent list and in the snapshot; after *)
(* reset every agent has the initial balance, position 0 and zeroed        *)
(* counters, the histories hold only their initial entries, the trade      *)
(* history is empty and the cycle of the last balance increase is 0.       *)
(***************************************************************************)
AgentIsFresh(agent) ==
    /\ agent.balance = initial_balance
    /\ agent.position = 0
    /\ agent.buy_orders_count = 0
    /\ agent.sell_orders_count = 0
    /\ agent.total_orders_count = 0
    /\ agent.total_volume_traded = 0
    /\ agent.total_value_traded = 0

\* C12: the agent count is num_agents; a reset leaves fresh agents, initial
\* histories, no trades and no balance increase on record.
C12_AgentsAndReset ==
    /\ DOMAIN agents = 0 .. (num_agents - 1)
    /\ Cardinality(DOMAIN agents) = num_agents
    /\ Len(get_simulation_data.agents) = num_agents
    /\ op.name = "reset" =>
           /\ \A a \in DOMAIN agents : AgentIsFresh(agents[a])
           /\ price_history = << initial_price >>
           /\ volume_history = << 0 >>
           /\ trade_count_history = << 0 >>
           /\ spread_history = << >>
           /\ trades = << >>
           /\ last_balance_increase_cycle = 0

\* A reset has been called after a cycle with a trade and a balance
\* increase.
C12_Witness ==
    /\ op.name = "reset"
    /\ config.balance_increase_cycles = 2
    /\ op.before.cycle = 2
    /\ op.before.trades > 0
    /\ last_balance_increase_cycle = 0
    /\ \A a \in DOMAIN agents : AgentIsFresh(agents[a])

(***************************************************************************)
(* C13: a run_cycle increases the balances if and only if, when it comes   *)
(* to that step, cycle - last_balance_increase_cycle >= the configured     *)
(* interval, and it then records the cycle as the cycle of the last        *)
(* increase; with the interval N of the construction, the increases are    *)
(* made exactly in the cycles that are multiples of N, counted from        *)
(* construction or reset.                                                  *)
(***************************************************************************)
\* The step has moved every balance up by the configured amount / has left
\* the agents as the loop over the agents left them.
BalancesIncreased ==
    \A a \in AgentIds :
        agents'[a].balance = op'.before_increase[a].balance + config.balance_increase_amount
BalancesKept == agents' = op'.before_increase

\* C13: the balances are increased exactly when the interval has passed
\* since the last increase, which is exactly in the cycles that are
\* multiples of the interval, and the cycle is then recorded.
C13_IncreaseWhenDue ==
    [][op'.name = "run_cycle" /\ ~ret'.raised =>
         LET due == cycle' - last_balance_increase_cycle >= config.balance_increase_cycles
         IN  /\ due <=> BalancesIncreased
             /\ ~due <=> BalancesKept
             /\ due <=> cycle' % config.balance_increase_cycles = 0
             /\ last_balance_increase_cycle' =
                    IF due THEN cycle' ELSE last_balance_increase_cycle]_vars

\* The second increase of a run with interval 2 has been made, in cycle 4.
C13_Witness ==
    /\ op.name = "run_cycle"
    /\ config.balance_increase_cycles = 2
    /\ cycle = 4
    /\ last_balance_increase_cycle = 4
    /\ \A a \in AgentIds :
           agents[a].balance = op.before_increase[a].balance + config.balance_increase_amount

(***************************************************************************)
(* C14: the balance increase adds exactly the configured amount to the     *)
(* balance of every agent, whatever the agent traded in the cycle, and     *)
(* changes no position and nothing of the book; with interval 5 and amount *)
(* 1000 every agent's balance after cycle 5 is 1000 above its balance      *)
(* before cycle 5.                                                         *)
(***************************************************************************)
\* C14, as stated: after cycle 5 of a run with interval 5 and amount 1000
\* every balance is 1000 above what it was before the cycle.
C14_CashAfterCycle ==
    [][/\ op'.name = "run_cycle" /\ op'.increased
       /\ config.balance_increase_cycles = 5
       /\ config.balance_increase_amount = 1000
       /\ cycle' = 5
       => \A a \in AgentIds : agents'[a].balance = agents[a].balance + 1000]_vars

\* C14: the increase moves every agent's balance up by the amount from what
\* the cycle's orders left, and nothing else of the agent; a cycle without
\* orders in which the increase is made leaves the book and the positions
\* alone and moves every balance up by the amount; with interval 5 and
\* amount 1000 the balances after cycle 5 are 1000 above the balances that
\* the orders of cycle 5 left.
C14_IncreaseStep ==
    [][op'.name = "run_cycle" /\ op'.increased =>
         /\ \A a \in AgentIds :
                agents'[a] = [op'.before_increase[a] EXCEPT
                                 !.balance = @ + config.balance_increase_amount]
         /\ next_order_id' = next_order_id =>
                /\ bookVars' = bookVars
                /\ \A a \in AgentIds :
                       /\ agents'[a].position = agents[a].position
                       /\ agents'[a].balance =
                              agents[a].balance + config.balance_increase_amount
         /\ ( /\ config.balance_increase_cycles = 5
              /\ config.balance_increase_amount = 1000
              /\ cycle' = 5 ) =>
                \A a \in AgentIds :
                    agents'[a].balance = op'.before_increase[a].balance + 1000]_vars

\* The increase of cycle 5 has been made in a run with interval 5 and amount
\* 1000, in a cycle with a trade.
C14_Witness ==
    /\ op.name = "run_cycle" /\ op.increased
    /\ config.balance_increase_cycles = 5
    /\ config.balance_increase_amount = 1000
    /\ cycle = 5
    /\ ~ret.raised /\ ret.value # << >>
    /\ \E a \in AgentIds : op.before_increase[a].balance # initial_balance

(***************************************************************************)
(* C15: for every max_history_size that SimulationConfig accepts (1 and    *)
(* more), after every run_cycle the price, volume, trade count and spread  *)
(* histories are no longer than max_history_size.                          *)
(***************************************************************************)
\* C15: after a run_cycle no history is longer than max_history_size.
C15_HistoriesWithinCap ==
    op.name = "run_cycle" =>
        /\ Len(price_history) <= config.max_history_size
        /\ Len(volume_history) <= config.max_history_size
        /\ Len(trade_count_history) <= config.max_history_size
        /\ Len(spread_history) <= config.max_history_size

(***************************************************************************)
(* C16: set_balance_increase_settings(cycles, amount) with cycles outside  *)
(* 1..10000 or amount < 0, and set_avg_spread_cycles(cycles) with cycles   *)
(* outside 1..1000, end in an error and leave the balance increase         *)
(* interval, the balance increase amount and the spread averaging window   *)
(* as they were.                                                           *)
(***************************************************************************)
OutOfRange ==
    \/ /\ op'.name = "set_balance_increase_settings"
       /\ (op'.cycles \notin 1 .. 10000 \/ op'.amount < 0)
    \/ /\ op'.name = "set_avg_spread_cycles"
       /\ op'.cycles \notin 1 .. 1000

\* C16: a setter called with a value out of range raises and changes no
\* setting.
C16_OutOfRangeRejected ==
    [][OutOfRange => ret'.raised /\ config' = config]_vars

(***************************************************************************)
(* C17: an update of the bot's configuration in which a field is out of    *)
(* range (order_interval outside 1..1000, order_type none of buy, sell,    *)
(* random, both, quantity outside 1..1000, price_offset outside 0.001..0.1,*)
(* price_range_min outside 0.5..1.0, price_range_max outside 1.0..2.0, or  *)
(* price_range_min >= price_range_max) changes no field of the bot's       *)
(* configuration.                                                          *)
(***************************************************************************)
UpdateOutOfRange(u) ==
    \/ u.order_interval \notin 1 .. 1000
    \/ u.order_type \notin {"buy", "sell", "random", "both"}
    \/ u.quantity \notin 1 .. 1000
    \/ u.price_offset \notin 1 .. 100
    \/ u.price_range_min \notin 500 .. 1000
    \/ u.price_range_max \notin 1000 .. 2000
    \/ u.price_range_min >= u.price_range_max

\* C17: an update with a field out of range leaves the bot's configuration
\* as it was, through the window and through set_bot_config.
C17_BotUpdateRejectedWhole ==
    [][op'.name \in {"save_config", "set_bot_config"} /\ UpdateOutOfRange(op'.update)
           => trading_bot'.config = trading_bot.config]_vars

\* The part of C17 that the window keeps: its update with a field out of
\* range raises and changes nothing.
SaveConfigRejectsWhole ==
    [][op'.name = "save_config" /\ UpdateOutOfRange(op'.update)
           => ret'.raised /\ trading_bot' = trading_bot]_vars

(***************************************************************************)
(* C18: the construction of a SimulationConfig fails whenever one of the   *)
(* agents' ranges (risk tolerance, trading frequency, price sensitivity,   *)
(* trade cooldown) has min > max or lies outside its bounds, or the        *)
(* weights of the strategy distribution sum to something more than 0.001   *)
(* off 1.0.                                                                *)
(***************************************************************************)
\* A range within 0.0 .. 1.0, and the cooldown's range, which has no upper
\* bound.
UnitRangeMalformed(range) ==
    range[1] > range[2] \/ range[1] < 0 \/ range[2] > 10
CooldownRangeMalformed(range) ==
    range[1] > range[2] \/ range[1] < 0

ArgsMalformed(args) ==
    \/ UnitRangeMalformed(args.agent_risk_tolerance_range)
    \/ UnitRangeMalformed(args.agent_trading_frequency_range)
    \/ UnitRangeMalformed(args.agent_price_sensitivity_range)
    \/ CooldownRangeMalformed(args.agent_trade_cooldown_range)
    \/ SumSeq(args.strategy_distribution) < 999
    \/ SumSeq(args.strategy_distribution) > 1001

\* C18: a construction with a malformed range or with weights too far off
\* 1.0 raises.
C18_MalformedConfigFails ==
    [][op'.name = "SimulationConfig" /\ ArgsMalformed(op'.args) => ret'.raised]_vars

(***************************************************************************)
(* C19: no order an agent submits drives the agent's balance below 0: a    *)
(* buy is submitted only if price * quantity <= the agent's balance at     *)
(* that moment, and after the trades of an order are applied to the        *)
(* submitting agent, whose balance was >= 0, its balance is still >= 0.    *)
(***************************************************************************)
\* The orders the last run_cycle submitted, each with the submitting
\* agent's balance before the order and after the order's trades.
Submitted == IF op.name = "run_cycle" THEN op.submitted ELSE << >>

\* C19: every buy submitted costs at most the balance at its limit price,
\* and an order submitted with a balance of 0 or more leaves, after its
\* trades are applied to the submitting agent, a balance of 0 or more.
C19_BalanceNeverNegative ==
    \A i \in 1 .. Len(Submitted) :
        LET s == Submitted[i]
        IN  /\ s.order.order_type = BUY =>
                   s.order.price * s.order.quantity <= s.balance
            /\ s.balance >= 0 => s.balance_after >= 0

(***************************************************************************)
(* C20: for the same sequence of add_order calls, the legacy OrderBook     *)
(* (append and stable sort) and OrderBookService (linear scan) have the    *)
(* same resting books, entry by entry with the same remaining quantities,  *)
(* and return the same trades (price, quantity, buyer, seller) from every  *)
(* call.                                                                   *)
(***************************************************************************)
TradeSeen(trade) ==
    << trade.price, trade.quantity, trade.buyer_id, trade.seller_id >>
TradesSeen(ts) == [i \in 1 .. Len(ts) |-> TradeSeen(ts[i])]

\* The resting books of the two engines are the same.
SameBooks ==
    /\ order_book.buy_orders = buy_orders
    /\ order_book.sell_orders = sell_orders

\* C20: after every call the two engines have the same books and have
\* returned the same trades.
C20_EnginesAgree ==
    /\ SameBooks
    /\ op.name = "add_order_both" =>
           /\ ~ret.raised
           /\ TradesSeen(ret.legacy_value) = TradesSeen(ret.value)

(***************************************************************************)
(* C28: for every agent state, price and quantity, can_buy(price,          *)
(* quantity) is true exactly when the agent's cash is at least price times *)
(* quantity, and can_sell(quantity) is true exactly when the agent's       *)
(* position is at least quantity.                                          *)
(***************************************************************************)
\* C28: the answer of can_buy and of can_sell is the comparison the claim
\* gives, on the agent the call was made on.
C28_CanBuyCanSell ==
    /\ op.name = "can_buy" =>
           (ret.can_buy <=>
                agents[op.agent_id].balance >= op.price * op.quantity)
    /\ op.name = "can_sell" =>
           (ret.can_sell <=> agents[op.agent_id].position >= op.quantity)

\* An agent that traded is asked for a purchase that costs exactly its cash.
C28_Witness ==
    /\ op.name = "can_buy"
    /\ agents[op.agent_id].balance = op.price * op.quantity
    /\ agents[op.agent_id].position > 0
    /\ ret.can_buy

(***************************************************************************)
(* C30: after any sequence of add_order calls every resting order has a    *)
(* remaining quantity above 0 (an order whose remaining quantity reaches 0 *)
(* is removed in the same call), each resting order has exactly one book   *)
(* entry, and the remaining quantity of a resting order is its quantity    *)
(* when it rested minus the sum of the trades that filled it.              *)
(***************************************************************************)
\* Every entry of book b has something left.
AllRemaining(b) == \A i \in 1 .. Len(b) : b[i].quantity > 0

\* No order has two entries in the books.
OneEntryEach(buys, sells) ==
    /\ \A i, j \in 1 .. Len(buys) : buys[i].id = buys[j].id => i = j
    /\ \A i, j \in 1 .. Len(sells) : sells[i].id = sells[j].id => i = j
    /\ OrderIds(buys) \cap OrderIds(sells) = {}

\* What the trades ts of one call filled of the resting order x: trade k of
\* a call is made with the k-th order the incoming order can trade with.
FilledOf(x, resting, ts) ==
    SumSeq([k \in 1 .. Len(ts) |->
               IF resting[k].id = x.id THEN ts[k].quantity ELSE 0])

\* C30: after every call the entries are positive and one per order; an
\* order that rested before the call rests after it with its quantity less
\* the trades of the call that filled it, or is gone when nothing is left.
C30_RemainingQuantities ==
    [][IsAddOrder /\ ~ret'.raised =>
         LET o == op'.order
             ts == ret'.value
             opposing == OpposingOf(o, buy_orders, sell_orders)
             opposing2 == OpposingOf(o, buy_orders', sell_orders')
             own == OwnOf(o, buy_orders, sell_orders)
             own2 == OwnOf(o, buy_orders', sell_orders')
             resting == Crossable(o, opposing)
         IN  /\ AllRemaining(buy_orders') /\ AllRemaining(sell_orders')
             /\ OneEntryEach(buy_orders', sell_orders')
             /\ \A i \in 1 .. Len(opposing) :
                    LET x == opposing[i]
                        left == x.quantity - FilledOf(x, resting, ts)
                    IN  /\ left >= 0
                        /\ IF left > 0
                           THEN \E j \in 1 .. Len(opposing2) :
                                    opposing2[j] = [x EXCEPT !.quantity = left]
                           ELSE x.id \notin OrderIds(opposing2)
             /\ \A i \in 1 .. Len(own) :
                    \E j \in 1 .. Len(own2) : own2[j] = own[i]]_vars

\* A Sell of 15 has taken all of one resting Buy and 5 of the next, which
\* rests on with the 5 it has left.
C30_Witness ==
    /\ op.name = "add_order"
    /\ op.order.order_type = SELL /\ op.order.quantity = 15
    /\ ~ret.raised
    /\ Len(ret.value) = 2
    /\ ret.value[1].quantity = 10 /\ ret.value[2].quantity = 5
    /\ Len(buy_orders) = 1
    /\ buy_orders[1].id < op.order.id
    /\ buy_orders[1].quantity = 5
    /\ sell_orders = << >>

(***************************************************************************)
(* C27: the trade history never holds more than max_trades_history trades  *)
(* after an add_order call; trades are only appended, and when the cap is  *)
(* exceeded the oldest are dropped, so the history is the most recent      *)
(* trades in the order of their creation, and a stored trade's fields      *)
(* never change.                                                           *)
(***************************************************************************)
\* C27: after every call the history is the end of the history before the
\* call followed by the trades of the call, as long as the cap allows, each
\* trade as it was created.
C27_TradeHistoryBounded ==
    [][IsAddOrder /\ ~ret'.raised =>
         LET created == trades \o ret'.value
             n == Len(created)
             kept == Min(n, config.max_trades_history)
         IN  /\ Len(trades') <= config.max_trades_history
             /\ Len(trades') = kept
             /\ \A i \in 1 .. kept : trades'[i] = created[n - kept + i]
             /\ \A i \in 1 .. (kept - 1) : trades'[i].id < trades'[i + 1].id]_vars

\* With a cap of 1 and one trade stored, a call makes the second trade: the
\* stored trade is dropped and the new one is the history.
C27_Witness ==
    /\ op.name = "add_order"
    /\ ~ret.raised
    /\ config.max_trades_history = 1
    /\ Len(ret.value) = 1
    /\ ret.value[1].id = 2
    /\ trades = ret.value

(***************************************************************************)
(* C29: at the end of run_cycle a spread is appended to the spread history *)
(* only if at least one trade was made in the cycle (and a spread          *)
(* exists); in a cycle without trades the spread history is unchanged.     *)
(***************************************************************************)
\* C29: a cycle that returns no trade leaves the spread history as it was.
C29_SpreadOnlyAfterTrade ==
    [][op'.name = "run_cycle" /\ ~ret'.raised /\ ret'.value = << >> =>
         spread_history' = spread_history]_vars

(***************************************************************************)
(* C23: in a cycle the should_trade of an agent's strategy is evaluated    *)
(* before an order is generated, and an agent whose strategy's             *)
(* should_trade is false submits no order.                                 *)
(***************************************************************************)
\* C23: an agent that returns an order has a strategy whose should_trade is
\* true on the market data of the call, for some value of its random draw
\* where it makes one.
C23_NoOrderUnlessShouldTrade ==
    op.name = "generate_order" /\ ret.order # None =>
        \E u \in Uniforms :
            strategy_should_trade(op.agent.strategy, op.market_data, u)

(***************************************************************************)
(* C24: every order emitted by the Momentum, MeanReversion, Scalper,       *)
(* ValueInvestor and NoiseTrader strategies has a quantity above 0; a Buy  *)
(* has price times quantity at most the agent's cash, a Sell has a         *)
(* quantity of at most max(0, position); when the clamped quantity is 0 or *)
(* less no order is emitted.                                               *)
(***************************************************************************)
ClampingStrategies ==
    {"MOMENTUM", "MEAN_REVERSION", "SCALPER", "VALUE_INVESTOR", "NOISE_TRADER"}

\* C24: an order one of these strategies returns is positive, paid for by
\* the balance when a Buy, covered by the position when a Sell.
C24_OrdersWithinMeans ==
    op.name = "generate_order" /\ op.agent.strategy \in ClampingStrategies
                               /\ ret.order # None =>
        LET order == ret.order[1]
        IN  /\ order.quantity > 0
            /\ order.order_type = BUY =>
                   order.price * order.quantity <= op.agent.balance
            /\ order.order_type = SELL =>
                   order.quantity <= Max(0, op.agent.position)

\* The noise trader draws a Buy of 20 at 105 with a balance of 2000 and
\* emits a Buy of 19.
C24_Witness ==
    /\ op.name = "generate_order"
    /\ op.agent.strategy = "NOISE_TRADER"
    /\ op.agent.balance = 2000000
    /\ op.draws.quantity = 20
    /\ ret.order # None
    /\ ret.order[1].order_type = BUY
    /\ ret.order[1].price = 105000
    /\ ret.order[1].quantity = 19

\* The step is a cycle of the legacy simulator.
IsLegacyCycle == op'.name = "legacy_run_cycle"
\* The balance increase of the cycle that has just run was made.
LegacyIncreased == simulator.last_balance_increase_cycle = simulator.cycle
\* The bot of the legacy simulator apart from its counters and the cycle of
\* its last order.
BotSettings(bot) == [bot.config EXCEPT !.last_order_cycle = 0]

\* C22: the bot's part of a legacy cycle changes no agent.  The agents the
\* cycle leaves have the cash and the position they had when the loop over
\* the agents was over (the cash apart from the balance increase that
\* follows the bot's part) and the same counters of orders, also when the
\* bot's order traded with an agent's resting order.  The bot's part
\* changes the book, the trade history and the current price only through
\* the bot's order, and the bot only in its counters: without an order of
\* the bot the book and the bot are as the agents' loop left them.
C22_BotStepChangesNoAgent ==
    [][IsLegacyCycle =>
         /\ op'.after_bot = op'.before_bot
         /\ \A i \in DOMAIN simulator'.agents :
                /\ simulator'.agents[i].position = op'.before_bot[i].position
                /\ simulator'.agents[i].balance =
                       op'.before_bot[i].balance
                       + (IF LegacyIncreased' THEN simulator'.balance_increase_amount
                          ELSE 0)
                /\ [simulator'.agents[i] EXCEPT !.balance = 0] =
                       [op'.before_bot[i] EXCEPT !.balance = 0]
         /\ BotSettings(trading_bot') = BotSettings(trading_bot)
         /\ op'.bot_order = None =>
                /\ order_book' = op'.book_before_bot
                /\ trading_bot' = trading_bot
                /\ op'.bot_trades = << >>
         /\ op'.bot_order # None =>
                /\ order_book'.trades = op'.book_before_bot.trades \o op'.bot_trades
                /\ order_book'.next_order_id = op'.book_before_bot.next_order_id + 1
                /\ trading_bot'.orders_placed = trading_bot.orders_placed + 1
                /\ trading_bot'.total_volume =
                       trading_bot.total_volume + op'.bot_order[1].quantity
                       + trade_quantities(op'.bot_trades)
    ]_vars
\* The bot's sell order has traded with the resting buy order of an agent,
\* who still has the position and the cash of before the bot's part.
C22_Witness ==
    /\ op.name = "legacy_run_cycle"
    /\ op.bot_order # None
    /\ op.bot_order[1].order_type = SELL
    /\ op.bot_trades # << >>
    /\ op.bot_trades[1].seller_id = bot_id
    /\ op.bot_trades[1].buyer_id \in DOMAIN simulator.agents
    /\ simulator.agents[op.bot_trades[1].buyer_id].position =
           op.before_bot[op.bot_trades[1].buyer_id].position
    /\ simulator.agents[op.bot_trades[1].buyer_id].balance =
           op.before_bot[op.bot_trades[1].buyer_id].balance


\* The cycle that has just run is cycle c of the legacy simulator, and the
\* bot placed an order in it.
BotOrderedIn(c) ==
    /\ op.name = "legacy_run_cycle"
    /\ op.bot_order # None
    /\ simulator.cycle = c

\* C21: the bot places an order in a cycle only when it is enabled and the
\* cycle is at least order_interval cycles after the cycle of its last
\* order, which the order then sets to this cycle; a disabled bot places
\* none.  Whenever the bot has placed an order in cycle c, every later
\* cycle in which it places one is at least order_interval cycles after c,
\* for the interval in force in that later cycle.
C21_BotCadence ==
    /\ [][IsLegacyCycle /\ op'.bot_order # None =>
            /\ trading_bot.config.enabled
            /\ simulator'.cycle - trading_bot.config.last_order_cycle
                   >= trading_bot.config.order_interval
            /\ trading_bot'.config.last_order_cycle = simulator'.cycle
            /\ op'.bot_order[1].agent_id = bot_id
       ]_vars
    /\ \A c \in 1 .. MaxCadenceCycle :
           [](BotOrderedIn(c) =>
                 [](\A later \in (c + 1) .. (MaxCadenceCycle + 1) :
                        BotOrderedIn(later) =>
                            later - c >= trading_bot.config.order_interval))
\* The bot's second order, placed in cycle 4 with the interval 2 in force.
C21_Witness ==
    /\ BotOrderedIn(4)
    /\ trading_bot.config.order_interval = 2
    /\ trading_bot.config.last_order_cycle = 4
    /\ trading_bot.orders_placed = 2
    /\ Len(order_book.buy_orders) + Len(order_book.sell_orders) = 2


\* The trades of the submissions sub, one submission after the other.
RECURSIVE TradesOf(_)
TradesOf(sub) == IF sub = << >> THEN << >> ELSE Head(sub).trades \o TradesOf(Tail(sub))
\* The submissions sub are those of agents 0 .. n-1 in ascending order of the
\* agents' ids, each agent at most once, and their orders took the order ids
\* from first on.
AscendingAgents(sub, first, n) ==
    \A k \in 1 .. Len(sub) :
        /\ sub[k].order.id = first + k - 1
        /\ sub[k].order.agent_id \in 0 .. n - 1
        /\ k < Len(sub) => sub[k].order.agent_id < sub[k + 1].order.agent_id
\* The trades ts are trades of the order o: o's owner is on o's side of each.
TradesOfOrder(o, ts) ==
    \A k \in 1 .. Len(ts) :
        IF o.order_type = BUY THEN ts[k].buyer_id = o.agent_id
        ELSE ts[k].seller_id = o.agent_id
\* The submission s was matched to completion: what the trades left of the
\* order rests in the book add_order left, and then no order of the other
\* side is at a price the order accepts; a filled order does not rest.
MatchedToCompletion(s) ==
    LET filled == trade_quantities(s.trades)
        own == OwnOf(s.order, s.book.buy_orders, s.book.sell_orders)
        opposing == OpposingOf(s.order, s.book.buy_orders, s.book.sell_orders)
        resting == {k \in 1 .. Len(own) : own[k].id = s.order.id}
    IN  /\ filled <= s.order.quantity
        /\ TradesOfOrder(s.order, s.trades)
        /\ IF filled = s.order.quantity THEN resting = {}
           ELSE /\ \E k \in resting : own[k].quantity = s.order.quantity - filled
                /\ \A k \in 1 .. Len(opposing) :
                       IF s.order.order_type = BUY
                       THEN opposing[k].price > s.order.price
                       ELSE opposing[k].price < s.order.price
\* The ids of the trades ts are consecutive from first on.
ConsecutiveTrades(ts, first) == \A k \in 1 .. Len(ts) : ts[k].id = first + k - 1
\* The ledger of an agent: its cash and its position.
Ledger(agent) == << agent.balance, agent.position >>

\* C25: in a cycle of either simulator the agents that submit an order do
\* so in ascending order of their ids, each once, in every cycle.  Each
\* order is matched to completion, and its trades are applied to the agent
\* that submitted it before the next agent is asked: the agents the next
\* agent finds (after the last one, the agents the loop leaves) are the
\* agents this one found, with this one's ledger changed by its trades.
\* The list of trades returned is the trades of the first submission, then
\* those of the second, and so on, their ids consecutive; in the legacy
\* simulator the bot's order takes the order id after the agents' orders
\* and its trades come last.
C25_AgentsInOrderBotLast ==
    [][/\ IsLegacyCycle =>
            LET sub == op'.submitted
                n == Cardinality(DOMAIN simulator.agents)
            IN  /\ AscendingAgents(sub, order_book.next_order_id, n)
                /\ \A k \in 1 .. Len(sub) :
                       LET a == sub[k].order.agent_id
                           found == sub[k].asked
                           next == IF k < Len(sub) THEN sub[k + 1].asked
                                   ELSE op'.before_bot
                       IN  /\ sub[k].agent_id = a
                           /\ MatchedToCompletion(sub[k])
                           /\ Ledger(next[a]) =
                                  Ledger(legacy_apply_trades(found[a], sub[k].trades))
                           /\ \A j \in DOMAIN found : j # a => next[j] = found[j]
                /\ IF sub = << >> THEN op'.before_bot = simulator.agents
                   ELSE sub[1].asked = simulator.agents
                /\ ret'.value = TradesOf(sub) \o op'.bot_trades
                /\ ConsecutiveTrades(ret'.value, order_book.next_trade_id)
                /\ op'.bot_order # None =>
                       /\ op'.bot_order[1].id = order_book.next_order_id + Len(sub)
                       /\ TradesOfOrder(op'.bot_order[1], op'.bot_trades)
                /\ order_book'.next_order_id =
                       order_book.next_order_id + Len(sub)
                       + (IF op'.bot_order # None THEN 1 ELSE 0)
       /\ op'.name = "run_cycle" /\ ~ret'.raised =>
            LET sub == op'.submitted
            IN  /\ AscendingAgents(sub, next_order_id, num_agents)
                /\ \A k \in 1 .. Len(sub) :
                       LET a == sub[k].order.agent_id
                           found == sub[k].asked
                           next == IF k < Len(sub) THEN sub[k + 1].asked
                                   ELSE op'.before_increase
                       IN  /\ MatchedToCompletion(sub[k])
                           /\ Ledger(next[a]) =
                                  Ledger(apply_trades(found[a], a, sub[k].trades))
                           /\ \A j \in DOMAIN found : j # a => next[j] = found[j]
                /\ IF sub = << >> THEN op'.before_increase = agents
                   ELSE sub[1].asked = agents
                /\ ret'.value = TradesOf(sub)
                /\ ConsecutiveTrades(ret'.value, next_trade_id)
                /\ next_order_id' = next_order_id + Len(sub)
    ]_vars
\* A legacy cycle in which the maker's offer rests, the noise trader's bid
\* takes it and rests with what is left, and the bot's offer takes that: the
\* two trades are returned in this order, and the noise trader has its
\* position from the first trade alone.
C25_Witness ==
    /\ op.name = "legacy_run_cycle"
    /\ Len(op.submitted) = 2
    /\ op.submitted[1].agent_id = 2
    /\ op.submitted[1].trades = << >>
    /\ op.submitted[2].agent_id = 5
    /\ Len(op.submitted[2].trades) = 1
    /\ op.submitted[2].trades[1].seller_id = 2
    /\ Len(op.bot_trades) = 1
    /\ op.bot_trades[1].buyer_id = 5
    /\ ret.value = op.submitted[2].trades \o op.bot_trades
    /\ simulator.agents[5].position = op.submitted[2].trades[1].quantity


\* C26: a run_cycle call comes to its end in every reachable state, after a
\* bounded amount of work.  The call counts one cycle.  Its loop comes to
\* every agent once (to no more agents when add_order raises), makes at
\* most one add_order call for each agent it comes to, and each add_order
\* call enters the body of its loop over the opposing book at most once for
\* each order resting there when it was called.  In every state a cycle in
\* which no agent makes an order can be run.
C26_RunCycleTerminates ==
    /\ [][op'.name = "run_cycle" =>
            /\ cycle' = cycle + 1
            /\ op'.asked <= num_agents
            /\ ~ret'.raised => op'.asked = num_agents
            /\ Len(op'.work) <= op'.asked
            /\ Len(op'.submitted) <= Len(op'.work)
            /\ \A k \in 1 .. Len(op'.work) :
                   op'.work[k].scanned <= op'.work[k].resting
       ]_vars
    /\ [](cycle < MaxCycle => ENABLED RunCycle([a \in AgentIds |-> NoOrder]))
\* A cycle in which an order traded with both of the two orders resting on
\* the other side, in one scan of the two.
C26_Witness ==
    /\ op.name = "run_cycle"
    /\ ~ret.raised
    /\ op.asked = num_agents
    /\ \E k \in 1 .. Len(op.work) :
           /\ op.work[k].resting = 2
           /\ op.work[k].scanned = 2
    /\ Len(ret.value) = 2


\* C31: no agent's position is below -1000, the limit of can_short_sell.  A
\* Sell is submitted in a cycle only by an agent whose position, when it is
\* asked, is at least the order's quantity above the limit.
C31_ShortPositionBounded ==
    /\ [](\A a \in AgentIds : agents[a].position >= -max_short)
    /\ [][op'.name = "run_cycle" =>
            \A k \in 1 .. Len(op'.submitted) :
                LET s == op'.submitted[k]
                IN  s.order.order_type = SELL =>
                        s.asked[s.order.agent_id].position - s.order.quantity
                            >= -max_short
       ]_vars
\* Agent 1, 5 above the limit, has offered 5, which traded with agent 0's
\* bid: agent 1 is at the limit.
C31_Witness ==
    /\ op.name = "run_cycle"
    /\ ~ret.raised
    /\ Len(op.submitted) = 2
    /\ op.submitted[2].order.order_type = SELL
    /\ op.submitted[2].order.agent_id = 1
    /\ op.submitted[2].asked[1].position = -995
    /\ op.submitted[2].order.quantity = 5
    /\ Len(op.submitted[2].trades) = 1
    /\ agents[1].position = -max_short


\* C32: the volatility in the market data of a cycle is within
\* [0.005, 0.05].  It is 0.01 when skip_volatility_calculation, the flag of
\* the fast mode, is set or the price history has fewer than 2 points;
\* otherwise it is twice the mean absolute return over the last 5 points of
\* the price history at most, raised to 0.005 and cut to 0.05.
C32_VolatilityBounded ==
    [][op'.name = "run_cycle" =>
          LET v == op'.market_data.volatility
              recent == LastSlice(price_history, 5)
              n == Len(recent) - 1
              total == sum_abs_changes(recent, 2)
          IN  /\ v.den > 0
              /\ v.num >= (v.den + 199) \div 200
              /\ 20 * v.num <= v.den
              /\ IF config.skip_volatility_calculation \/ Len(price_history) < 2
                 THEN 100 * v.num = v.den
                 ELSE \/ /\ 2 * total.num * 20 >= n * total.den
                         /\ 20 * v.num = v.den
                      \/ /\ 2 * total.num <= (n * total.den) \div 200
                         /\ 200 * v.num = v.den
                      \/ /\ 2 * total.num * 20 < n * total.den
                         /\ 2 * total.num > (n * total.den) \div 200
                         /\ v.num = 2 * total.num
                         /\ v.den = n * total.den
    ]_vars
\* The sixth cycle: the price fell from 100 to 95 in the first cycle and has
\* not moved since, so the last 5 of the 6 points are equal and the
\* volatility is 0.005.
C32_Witness ==
    /\ op.name = "run_cycle"
    /\ ~ret.raised
    /\ op.market_data.price_history = << 100, 95, 95, 95, 95, 95 >>
    /\ ~config.skip_volatility_calculation
    /\ op.market_data.volatility = Ratio(1, 200)

\* C33: the book is never crossed.  After any sequence of add_order calls
\* with valid orders, when both sides hold orders the best bid is below the
\* best ask, and get_spread, which then gives a spread, gives one above 0.
C33_BookNeverCrossed ==
    (buy_orders # << >> /\ sell_orders # << >>) =>
        /\ get_best_bid[1] < get_best_ask[1]
        /\ \A i \in 1 .. Len(buy_orders), j \in 1 .. Len(sell_orders) :
               buy_orders[i].price < sell_orders[j].price
        /\ get_spread # None
        /\ get_spread[1] > 0
\* A buy order has traded with the offer at its price and rests with what is
\* left of it, 1 below the offer that is still in the book.
C33_Witness ==
    /\ op.name = "add_order"
    /\ ~ret.raised
    /\ Len(ret.value) = 1
    /\ op.order.order_type = BUY
    /\ buy_orders # << >>
    /\ buy_orders[1].id = op.order.id
    /\ sell_orders # << >>
    /\ get_spread = Some(1)

\* C34: an order whose trades are all with resting orders of the agent that
\* submits it (buyer_id = seller_id) leaves that agent's balance and position
\* as they were when the agent was asked.
C34_SelfTradeKeepsLedger ==
    \A i \in 1 .. Len(Submitted) :
        LET s == Submitted[i]
            a == s.order.agent_id
        IN  (/\ s.trades # << >>
             /\ \A k \in 1 .. Len(s.trades) :
                    /\ s.trades[k].buyer_id = a
                    /\ s.trades[k].seller_id = a)
            => /\ op.before_increase[a].balance = s.asked[a].balance
               /\ op.before_increase[a].position = s.asked[a].position

\* C35: the market data of a cycle is made once, from the state run_cycle
\* finds, before any agent is asked.  Every agent asked in the cycle is
\* asked with it: the same current price, best bid, best ask, spread,
\* volatility and histories, whatever the agents before it have submitted
\* in the cycle.
C35_SnapshotBuiltOnce ==
    [][op'.name = "run_cycle" =>
          /\ op'.market_data.current_price = get_current_price(price_history)
          /\ op'.market_data.best_bid = get_best_bid
          /\ op'.market_data.best_ask = get_best_ask
          /\ op'.market_data.spread = get_spread
          /\ op'.market_data.price_history = get_history(price_history, 20)
          /\ op'.market_data.volume_history = get_history(volume_history, 20)
          /\ Len(op'.shown) = op'.asked
          /\ \A k \in 1 .. Len(op'.shown) : op'.shown[k] = op'.market_data
    ]_vars
\* Agent 0's bid rests in the book when agent 1 is asked; agent 1 is asked
\* with market data that has no best bid, and its offer trades with the bid.
C35_Witness ==
    /\ op.name = "run_cycle"
    /\ ~ret.raised
    /\ Len(op.shown) = 2
    /\ Len(op.submitted) = 2
    /\ op.submitted[1].order.agent_id = 0
    /\ op.submitted[1].book.buy_orders # << >>
    /\ op.shown[2].best_bid = None
    /\ op.submitted[2].order.agent_id = 1
    /\ op.submitted[2].trades # << >>

\* C36: the current price of an engine changes only with a trade.  An
\* add_order that returns no trade leaves it as it was, and one that returns
\* trades leaves it at the price of the last of them; so it is the initial
\* price while the engine has made no trade, the price of its most recent
\* trade afterwards, and above 0.  Both engines, OrderBookService and the
\* legacy OrderBook, are given the same valid orders.
C36_PriceFollowsTrades ==
    /\ [][op'.name = "add_order_both" =>
            /\ current_price' =
                   IF ret'.value = << >> THEN current_price
                   ELSE ret'.value[Len(ret'.value)].price
            /\ order_book'.current_price =
                   IF ret'.legacy_value = << >> THEN order_book.current_price
                   ELSE ret'.legacy_value[Len(ret'.legacy_value)].price
       ]_vars
    /\ [](/\ current_price > 0
          /\ current_price = IF trades = << >> THEN initial_price
                             ELSE trades[Len(trades)].price
          /\ order_book.current_price > 0
          /\ order_book.current_price =
                 IF order_book.trades = << >> THEN initial_price
                 ELSE order_book.trades[Len(order_book.trades)].price)
\* A buy order has traded with two offers, at 99 and then at 100, and the
\* current price of both engines is 100; the order before it made no trade
\* and left the price at 100, the initial price.
C36_Witness ==
    /\ op.name = "add_order_both"
    /\ ~ret.raised
    /\ Len(ret.value) = 2
    /\ ret.value[1].price = 99
    /\ ret.value[2].price = 100
    /\ current_price = 100
    /\ Len(ret.legacy_value) = 2
    /\ order_book.current_price = 100

\* C37: when run_cycle returns, the cycles gone by since the last balance
\* increase are at least 0 and fewer than balance_increase_cycles, whatever
\* set_balance_increase_settings made of the interval between the cycles;
\* get_balance_increase_info then reports at least 1 cycle to the next
\* increase.
C37_IncreaseWithinInterval ==
    [][(op'.name = "run_cycle" /\ ~ret'.raised) =>
          /\ cycle' - last_balance_increase_cycle' >= 0
          /\ cycle' - last_balance_increase_cycle' < config'.balance_increase_cycles
          /\ get_balance_increase_info'.next_increase >= 1
    ]_vars
\* Three cycles went by without an increase, then the interval was set to 2
\* and the amount to 500: the fourth cycle has made the increase, the only
\* one of the run.
C37_Witness ==
    /\ op.name = "run_cycle"
    /\ ~ret.raised
    /\ op.increased
    /\ cycle = 4
    /\ last_balance_increase_cycle = 4
    /\ config.balance_increase_cycles = 2
    /\ \A a \in AgentIds : agents[a].balance = initial_balance + 500
    /\ get_balance_increase_info.next_increase = 2

\* The orders resting in the book.
RestingOrders ==
    {buy_orders[i] : i \in 1 .. Len(buy_orders)}
        \cup {sell_orders[i] : i \in 1 .. Len(sell_orders)}

\* C38: trade ids are given in the order the trades are made, 1 to the
\* first trade after the construction or a reset and 1 more to each trade
\* after it, so no two trades since then have the same id.  Every order
\* run_cycle submits has the next order id, 1 for the first after the
\* construction or a reset, so no two orders submitted since then have the
\* same id.
C38_IdsInCreationOrder ==
    /\ [](/\ op.name \in {"init", "reset"} => (next_trade_id = 1 /\ next_order_id = 1)
          /\ \A i \in 1 .. Len(trades) :
                 /\ trades[i].id >= 1
                 /\ trades[i].id < next_trade_id
                 /\ \A j \in 1 .. Len(trades) : i < j => trades[i].id < trades[j].id
          /\ \A o \in RestingOrders : o.id >= 1 /\ o.id < next_order_id
          /\ Cardinality({o.id : o \in RestingOrders})
                 = Len(buy_orders) + Len(sell_orders))
    /\ [][(op'.name = "run_cycle" /\ ~ret'.raised) =>
            /\ \A k \in 1 .. Len(ret'.value) :
                   ret'.value[k].id = next_trade_id + k - 1
            /\ next_trade_id' = next_trade_id + Len(ret'.value)
            /\ \A k \in 1 .. Len(op'.submitted) :
                   op'.submitted[k].order.id = next_order_id + k - 1
            /\ next_order_id' = next_order_id + Len(op'.submitted)
       ]_vars
\* The second trade of a run, with id 2 after the trade with id 1, made by
\* the third order submitted, which has id 3.
C38_Witness ==
    /\ op.name = "run_cycle"
    /\ ~ret.raised
    /\ Len(trades) = 2
    /\ trades[1].id = 1
    /\ ret.value = << trades[2] >>
    /\ trades[2].id = 2
    /\ Len(op.submitted) = 1
    /\ op.submitted[1].order.id = 3
    /\ next_trade_id = 3
    /\ next_order_id = 4

\* The orders of side t that agent a submitted in the cycle just run.
SubmittedBy(submitted, a, t) ==
    Cardinality({k \in 1 .. Len(submitted) :
                    /\ submitted[k].order.agent_id = a
                    /\ submitted[k].order.order_type = t})

\* C39: every agent's total_orders_count is its buy_orders_count plus its
\* sell_orders_count, and a cycle adds to each of an agent's counters the
\* number of orders of its kind the agent submitted in the cycle, 1 for each
\* order.  The bot's orders_placed is its buy_orders plus its sell_orders,
\* and an order of the bot adds 1 to orders_placed and to the counter of its
\* side.
C39_OrderCounters ==
    /\ [](/\ \A a \in AgentIds :
                 agents[a].total_orders_count =
                     agents[a].buy_orders_count + agents[a].sell_orders_count
          /\ trading_bot.orders_placed =
                 trading_bot.buy_orders + trading_bot.sell_orders)
    /\ [][(op'.name = "run_cycle" /\ ~ret'.raised) =>
            \A a \in AgentIds :
                /\ agents'[a].buy_orders_count =
                       agents[a].buy_orders_count + SubmittedBy(op'.submitted, a, BUY)
                /\ agents'[a].sell_orders_count =
                       agents[a].sell_orders_count + SubmittedBy(op'.submitted, a, SELL)
                /\ agents'[a].total_orders_count =
                       agents[a].total_orders_count
                           + SubmittedBy(op'.submitted, a, BUY)
                           + SubmittedBy(op'.submitted, a, SELL)
                /\ SubmittedBy(op'.submitted, a, BUY)
                       + SubmittedBy(op'.submitted, a, SELL) <= 1
       ]_vars
    /\ [][op'.name = "legacy_run_cycle" =>
            LET placed == IF op'.bot_order = None THEN 0 ELSE 1
                bought == IF op'.bot_order # None /\ op'.bot_order[1].order_type = BUY
                          THEN 1 ELSE 0
            IN  /\ trading_bot'.orders_placed = trading_bot.orders_placed + placed
                /\ trading_bot'.buy_orders = trading_bot.buy_orders + bought
                /\ trading_bot'.sell_orders = trading_bot.sell_orders + placed - bought
       ]_vars
\* Agent 0 has submitted a buy order in one cycle and a sell order in the
\* next: 1 buy, 1 sell, 2 orders.
C39_Witness ==
    /\ op.name = "run_cycle"
    /\ ~ret.raised
    /\ SubmittedBy(op.submitted, 0, SELL) = 1
    /\ agents[0].buy_orders_count = 1
    /\ agents[0].sell_orders_count = 1
    /\ agents[0].total_orders_count = 2

=============================================================================
